---- MODULE Spec2Model ----
(***************************************************************************)
(* A model of markdocx: the DOCX builder (docx_builder.py) walking the     *)
(* markdown-it token stream, the converter core that drives it (core.py),  *)
(* the fence dispatch to the diagram / code renderers, and the             *)
(* LaTeX -> MathML -> OMML translator (math_renderer.py).                  *)
(*                                                                         *)
(* Positions are 1-based: the Python cursor i corresponds to i + 1 here,   *)
(* so "i < len(tokens)" reads "i <= Len(toks)".                            *)
(***************************************************************************)
EXTENDS Integers, Sequences, FiniteSets, TLC

VARIABLES
    tokens,             \* the token list of the document being converted
    pc,                 \* "idle" | "running" | "done" | "failed" (convert_file)
    stack,              \* call stack of the builder: one frame per activation
    blockquote_depth,   \* DocxBuilder._blockquote_depth
    list_depth,         \* DocxBuilder._list_depth
    ordered_counters,   \* DocxBuilder._ordered_counters (dict depth -> counter)
    out,                \* blocks appended to self.doc, in order
    visits,             \* history: per token, times a dispatch cursor passed it
    collects,           \* history: per token, times a blockquote collected it
    lastRet,            \* history: the most recent handler return
    exits,              \* history: how each blockquote handler call was left
    entry,              \* history: traversal state at the entry of build()
    handoffs,           \* history: the collaborator each code token was handed to
    md_left,            \* convert_directory: files still to convert
    results,            \* convert_directory: the results list
    md_files,           \* convert_directory: sorted(glob.glob(pattern)); the one file otherwise
    cd_pc,              \* convert_directory: "off" | "glob" | "loop" | "returned"
    main_pc,            \* cli.main: "off" | "start" | "convert_file" | "convert_directory" | "exit"
    input_path,         \* cli.main: what args.input names (history once main has branched)
    exit_code,          \* cli.main: the code given to sys.exit, 0 when main returns
    mathIn,             \* math translator: the call (latex_str, para) and its history
    mathml,             \* math translator: the MathML tree, or NoMathml
    omml,               \* math translator: the OMML tree, or NoOmml
    mpc,                \* math translator: position in latex_to_omml_para
    pi_children,        \* _process_inline: children, the inline tokens of the paragraph
    pi_idx,             \* _process_inline: idx, the loop index (0-based, as in the code)
    bold,               \* _process_inline: local flag
    italic,             \* _process_inline: local flag
    strikethrough,      \* _process_inline: local flag
    link_href,          \* _process_inline: None (Absent) or the target of the open link
    runs,               \* _process_inline: what was appended to the paragraph, in order
    ipc                 \* _process_inline: "idle" | "loop" | "returned" | "raised"

vars == <<tokens, pc, stack, blockquote_depth, list_depth, ordered_counters,
          out, visits, collects, lastRet, exits, entry, handoffs, md_left,
          results, md_files, cd_pc, main_pc, input_path, exit_code,
          mathIn, mathml, omml, mpc,
          pi_children, pi_idx, bold, italic, strikethrough, link_href, runs, ipc>>

builderVars == <<tokens, pc, stack, blockquote_depth, list_depth,
                 ordered_counters, out, visits, collects, lastRet, exits,
                 entry, handoffs, md_left, results,
                 md_files, cd_pc, main_pc, input_path, exit_code>>

callerVars == <<md_files, cd_pc, main_pc, input_path, exit_code>>

mathVars == <<mathIn, mathml, omml, mpc>>

inlineVars == <<pi_children, pi_idx, bold, italic, strikethrough, link_href, runs, ipc>>

(***************************************************************************)
(* Bounds of the model.                                                    *)
(***************************************************************************)
MaxDepth == 2       \* nesting depth of lists / blockquotes in generated documents
MaxItems == 2       \* items per generated list
MaxBlocks == 2      \* blocks in a flat generated document
MaxRows == 3        \* rows of a generated table
MaxCols == 3        \* cells of a generated table row
MaxFiles == 2       \* files of a directory conversion
MathDepth == 2      \* nesting depth of generated MathML trees
MaxBulletDepth == 7 \* lists nested in the deepest generated bullet list
MaxInline == 4      \* inline tokens of a generated marker or link sequence
MaxMixed == 2       \* inline tokens of a generated sequence over every token kind

(***************************************************************************)
(* Strings are sequences of one-character strings, so that str.strip,      *)
(* str.split and str.lower are computed, not assumed.                      *)
(***************************************************************************)
IsSpace(c) == c \in {" ", "\t", "\n"}

\* Python str values
Str == Seq(STRING)

\* str.lstrip()
LStrip[s \in Str] == IF s # <<>> /\ IsSpace(Head(s)) THEN LStrip[Tail(s)] ELSE s

\* str.rstrip()
RStrip[s \in Str] ==
    IF s # <<>> /\ IsSpace(s[Len(s)]) THEN RStrip[SubSeq(s, 1, Len(s) - 1)] ELSE s

\* str.strip()
Strip[s \in Str] == RStrip[LStrip[s]]

\* str.rstrip("\n")
RStripNewline[s \in Str] ==
    IF s # <<>> /\ s[Len(s)] = "\n" THEN RStripNewline[SubSeq(s, 1, Len(s) - 1)]
    ELSE s

\* the first maximal run of non-space characters of s, s not starting with a space
FirstRun[s \in Str] ==
    IF s = <<>> \/ IsSpace(Head(s)) THEN <<>> ELSE <<Head(s)>> \o FirstRun[Tail(s)]

\* str.split(): the whitespace-separated words of s
Split[s \in Str] ==
    LET t == LStrip[s]
        w == FirstRun[t]
    IN  IF t = <<>> THEN <<>>
        ELSE <<w>> \o Split[SubSeq(t, Len(w) + 1, Len(t))]

UpperChars ==
    <<"A", "B", "C", "D", "E", "F", "G", "H", "I", "J", "K", "L", "M",
      "N", "O", "P", "Q", "R", "S", "T", "U", "V", "W", "X", "Y", "Z">>
LowerChars ==
    <<"a", "b", "c", "d", "e", "f", "g", "h", "i", "j", "k", "l", "m",
      "n", "o", "p", "q", "r", "s", "t", "u", "v", "w", "x", "y", "z">>

LowerChar[c \in STRING] ==
    IF \E k \in 1..Len(UpperChars) : UpperChars[k] = c
    THEN LowerChars[CHOOSE k \in 1..Len(UpperChars) : UpperChars[k] = c]
    ELSE c

\* str.lower()
Lower[s \in Str] == [k \in 1..Len(s) |-> LowerChar[s[k]]]

(***************************************************************************)
(* Python dict helpers (for _ordered_counters).                            *)
(***************************************************************************)
DictPut(d, k, v) == [x \in (DOMAIN d) \cup {k} |-> IF x = k THEN v ELSE d[x]]
DictDel(d, k) == [x \in (DOMAIN d) \ {k} |-> d[x]]
DictGet(d, k, default) == IF k \in DOMAIN d THEN d[k] ELSE default
EmptyDict == [x \in {} |-> 0]

(***************************************************************************)
(* Tokens (markdown_it.token.Token): type, info (fence language line),     *)
(* content, children (the types of an inline token's children).            *)
(***************************************************************************)
Tok(t) == [type |-> t, info |-> <<>>, content |-> <<>>, children |-> <<>>]
InlineTok == [Tok("inline") EXCEPT !.children = <<"text">>]
FenceTok(info, content) == [Tok("fence") EXCEPT !.info = info, !.content = content]
CodeBlockTok(content) == [Tok("code_block") EXCEPT !.content = content]
MathBlockTok(content) == [Tok("math_block") EXCEPT !.content = content]

SomeCode == <<"1", " ", "2", "\n">>
BlankInfo == <<" ", " ">>
PythonInfo == <<"p", "y", "t", "h", "o", "n">>
MatrixInfo == <<"m", "a", "t", "r", "i", "x">>

\* info strings a fence can carry (fence.py keeps the rest of the line unstripped)
InfoSet ==
    { <<>>, BlankInfo, <<"\t">>, PythonInfo, MatrixInfo,
      <<" ", "m", "a", "t", "r", "i", "x">>,
      <<"M", "a", "t", "r", "i", "x", " ">>,
      <<"M", "A", "T", "R", "I", "X">>,
      <<"c", "h", "a", "r", "t">>,
      <<"C", "h", "a", "r", "t", " ", "b", "a", "r">>,
      <<"g", "r", "a", "p", "h">>,
      <<"g", "r", "a", "p", "h", "s">>,
      <<"G", "R", "A", "P", "H", "\t", "x">>,
      <<"w", "o", "r", "k", "f", "l", "o", "w">>,
      <<"w", "o", "r", "k", " ", "f", "l", "o", "w">>,
      <<"W", "o", "r", "k", "F", "l", "o", "w">>,
      <<"p", "y", " ", "m", "a", "t", "r", "i", "x">>,
      <<"m", "a", "t", "r", "i", "x", "2">>,
      <<"m", "a", "t">>,
      <<"x", "c", "h", "a", "r", "t">> }

ContentSet == { <<>>, <<"\n">>, SomeCode, <<" ", "\n">> }

(***************************************************************************)
(* Documents: token sequences as the markdown-it block grammar nests them. *)
(***************************************************************************)
Para == <<Tok("paragraph_open"), InlineTok, Tok("paragraph_close")>>
Heading == <<Tok("heading_open"), InlineTok, Tok("heading_close")>>
BadFence == <<FenceTok(BlankInfo, SomeCode)>>

Item(body) == <<Tok("list_item_open")>> \o body \o <<Tok("list_item_close")>>

ListOpen(ordered) == Tok(IF ordered THEN "ordered_list_open" ELSE "bullet_list_open")
ListClose(ordered) == Tok(IF ordered THEN "ordered_list_close" ELSE "bullet_list_close")

\* the items j..n of a list whose item k carries `inner` after its paragraph
RECURSIVE Items(_, _, _, _)
Items(j, n, k, inner) ==
    IF j > n THEN <<>>
    ELSE Item(Para \o (IF j = k THEN inner ELSE <<>>)) \o Items(j + 1, n, k, inner)

ListOf(ordered, n, k, inner) ==
    <<ListOpen(ordered)>> \o Items(1, n, k, inner) \o <<ListClose(ordered)>>

Quote(body) == <<Tok("blockquote_open")>> \o body \o <<Tok("blockquote_close")>>

NestLeaves == { <<>>, Para, BadFence }

\* what may follow a container at the same level: nothing, or a sibling ordered list
SiblingPosts == { <<>>, ListOf(TRUE, 1, 1, <<>>) }

\* <<n, k>>: a list of n items whose item k carries the nested content
ListShapes == { <<1, 1>>, <<MaxItems, 1>>, <<MaxItems, MaxItems>> }

RECURSIVE NestBody(_)
NestBody(d) ==
    IF d = 0 THEN NestLeaves
    ELSE LET inner == NestBody(d - 1)
             lists == { ListOf(o, nk[1], nk[2], b) :
                          o \in BOOLEAN, nk \in ListShapes, b \in inner }
             quotes == { Quote(b) : b \in inner }
         IN  NestLeaves \cup
             { c \o p : c \in lists \cup quotes, p \in SiblingPosts }

NestDocs == NestBody(MaxDepth)

\* one table row: tr_open, w cells (th in the head, td in the body), tr_close
RECURSIVE Cells(_, _)
Cells(w, head) ==
    IF w = 0 THEN <<>>
    ELSE <<Tok(IF head THEN "th_open" ELSE "td_open"), InlineTok,
           Tok(IF head THEN "th_close" ELSE "td_close")>> \o Cells(w - 1, head)

Row(w, head) == <<Tok("tr_open")>> \o Cells(w, head) \o <<Tok("tr_close")>>

RECURSIVE BodyRows(_, _)
BodyRows(ws, j) == IF j > Len(ws) THEN <<>> ELSE Row(ws[j], FALSE) \o BodyRows(ws, j + 1)

\* a table whose rows have the widths ws: the first row is the head
Table(ws) ==
    <<Tok("table_open"), Tok("thead_open")>> \o Row(ws[1], TRUE) \o <<Tok("thead_close")>>
    \o (IF Len(ws) > 1
        THEN <<Tok("tbody_open")>> \o BodyRows(ws, 2) \o <<Tok("tbody_close")>>
        ELSE <<>>)
    \o <<Tok("table_close")>>

WidthSeqs == UNION { [1..r -> 0..MaxCols] : r \in 1..MaxRows }

\* a table whose body row starts with a header cell (th outside thead) and whose
\* head row ends with a data cell (td inside thead)
RowHeadTable ==
    <<Tok("table_open"), Tok("thead_open"), Tok("tr_open")>>
    \o Cells(1, TRUE) \o Cells(1, FALSE)
    \o <<Tok("tr_close"), Tok("thead_close"), Tok("tbody_open"), Tok("tr_open")>>
    \o Cells(1, TRUE) \o Cells(1, FALSE)
    \o <<Tok("tr_close"), Tok("tbody_close"), Tok("table_close")>>

TableDocs ==
    { Table(ws) : ws \in WidthSeqs } \cup { Quote(Table(ws)) : ws \in [1..2 -> 1..2] }
    \cup { RowHeadTable }

FenceDocs ==
    { <<FenceTok(i, c)>> : i \in InfoSet, c \in ContentSet }
    \cup { <<CodeBlockTok(c)>> : c \in ContentSet }

Footnote(anchor) ==
    <<Tok("footnote_open"), Tok("paragraph_open"), InlineTok>>
    \o (IF anchor THEN <<Tok("footnote_anchor")>> ELSE <<>>)
    \o <<Tok("paragraph_close"), Tok("footnote_close")>>

RECURSIVE Footnotes(_, _)
Footnotes(n, anchor) == IF n = 0 THEN <<>> ELSE Footnote(anchor) \o Footnotes(n - 1, anchor)

FootnoteBlock(n, anchor) ==
    <<Tok("footnote_block_open")>> \o Footnotes(n, anchor) \o <<Tok("footnote_block_close")>>

\* footnote_tail appends the footnote block after the last block of the document
FootnoteDocs ==
    { p \o FootnoteBlock(n, a) : n \in 1..MaxItems, a \in BOOLEAN, p \in { <<>>, Para } }

FlatLeaves ==
    { Para, Heading, <<FenceTok(PythonInfo, SomeCode)>>, <<FenceTok(MatrixInfo, SomeCode)>>,
      <<CodeBlockTok(SomeCode)>>, <<MathBlockTok(<<"x">>)>>, <<MathBlockTok(<<" ">>)>>,
      <<Tok("hr")>>, <<Tok("html_block")>>, <<Tok("front_matter")>>,
      Table(<<2, 1>>) }

RECURSIVE FlatSeqs(_)
FlatSeqs(n) ==
    IF n = 0 THEN { <<>> }
    ELSE LET shorter == FlatSeqs(n - 1)
         IN  shorter \cup { s \o b : s \in { t \in shorter : TRUE }, b \in FlatLeaves }

FlatBodies == FlatSeqs(MaxBlocks) \ { <<>> }

FlatDocs ==
    FlatBodies
    \cup { Quote(b) : b \in FlatBodies }
    \cup { ListOf(o, 1, 1, b) : o \in BOOLEAN, b \in FlatBodies }
    \cup FootnoteDocs

\* d bullet lists, each in the only item of the one around it
RECURSIVE BulletChain(_)
BulletChain(d) == IF d = 0 THEN <<>> ELSE ListOf(FALSE, 1, 1, BulletChain(d - 1))

DeepDocs == { BulletChain(d) : d \in (MaxDepth + 1)..MaxBulletDepth }

Docs == NestDocs \cup FlatDocs \cup TableDocs \cup FenceDocs \cup DeepDocs

\* the documents a directory conversion reads
BatchDocs ==
    NestBody(1)
    \cup FlatLeaves \cup { Para \o FootnoteBlock(1, TRUE) }
    \cup { Quote(b) : b \in FlatLeaves }
    \cup { ListOf(o, 1, 1, b) : o \in BOOLEAN, b \in FlatLeaves }
    \cup { Quote(ListOf(TRUE, 1, 1, BadFence)), ListOf(TRUE, 2, 2, Quote(BadFence)),
           ListOf(TRUE, 2, 1, ListOf(TRUE, 1, 1, <<>>)) }

(***************************************************************************)
(* Output blocks (what python-docx is asked to append to self.doc).        *)
(*   tok     the token the block was produced for (its index in tokens)    *)
(*   bq      the depth given to set_blockquote_style, 0 when not called    *)
(*   indent  left_indent in units of LIST_INDENT, 0 when not set           *)
(*   num     the number of an ordered list row; glyph the bullet's index   *)
(***************************************************************************)
Blk(kind, tok) ==
    [kind |-> kind, tok |-> tok, bq |-> 0, indent |-> 0, ordered |-> FALSE,
     num |-> 0, glyph |-> 0, rows |-> 0, cols |-> 0, filled |-> {}, header |-> {}]

(***************************************************************************)
(* Call frames.  A handler frame shares its caller's token list (toks is a *)
(* sequence of token identities: indices into `tokens`); the frame of a    *)
(* recursive _process_tokens call holds the blockquote's inner_tokens.     *)
(***************************************************************************)
Frame(fn, toks, i, at) ==
    [fn |-> fn, toks |-> toks, i |-> i, at |-> at,
     start |-> i,               \* history: the cursor the handler was given
     ordered |-> FALSE,         \* _handle_list: ordered
     depth |-> 0,               \* _handle_list: depth; nesting counter of the others
     pre |-> 0,                 \* history: _blockquote_depth before the call
     inner |-> <<>>,            \* _handle_blockquote: inner_tokens
     rows_data |-> <<>>,        \* _handle_table: rows_data
     current_row |-> <<>>,      \* _handle_table: current_row
     is_header_section |-> FALSE]

F == stack[Len(stack)]
TypeAt(f, k) == tokens[f.toks[k]].type
InRange(f, k) == k <= Len(f.toks)
Here(f) == TypeAt(f, f.i)

Running(fn, at) ==
    /\ pc = "running"
    /\ stack # <<>>
    /\ F.fn = fn
    /\ F.at = at

SetTop(f) == [stack EXCEPT ![Len(stack)] = f]
Push(f, callee) == Append(SetTop(f), callee)

\* the token identities under the cursor positions a..b-1 of frame f
Passed(f, a, b) == { f.toks[k] : k \in a..(b - 1) }
Visit(S) == [t \in DOMAIN visits |-> visits[t] + (IF t \in S THEN 1 ELSE 0)]

\* a handler returns cursor `to` to its caller: the caller's i becomes `to`
ReturnTo(to) ==
    LET rest == SubSeq(stack, 1, Len(stack) - 1)
    IN  [rest EXCEPT ![Len(rest)] = [rest[Len(rest)] EXCEPT !.i = to]]

Ret(fn, toks, from, to) == [fn |-> fn, toks |-> toks, from |-> from, to |-> to]
NoRet == Ret("none", <<>>, 0, 0)

\* an exception leaves every active frame; no handler of the builder catches it
Unwound ==
    [k \in 1..Cardinality({ j \in 1..Len(stack) : stack[j].fn = "blockquote" }) |->
        LET js == { j \in 1..Len(stack) : stack[j].fn = "blockquote" }
            j == CHOOSE x \in js : Cardinality({ y \in js : y <= x }) = k
        IN  [how |-> "raise", pre |-> stack[j].pre, post |-> blockquote_depth]]

Raise ==
    /\ pc' = "failed"
    /\ stack' = <<>>
    /\ exits' = exits \o Unwound
    /\ UNCHANGED <<tokens, blockquote_depth, list_depth, ordered_counters, out,
                   visits, collects, lastRet, entry, md_left, results, callerVars, mathVars, inlineVars>>

(***************************************************************************)
(* Block handlers without loops, as functions of the cursor: the cursor    *)
(* returned and the blocks appended.                                       *)
(***************************************************************************)
\* the cursor after an optional token of type t at position k
SkipIf(f, k, t) == IF InRange(f, k) /\ TypeAt(f, k) = t THEN k + 1 ELSE k

HandleHeading(f, i) ==
    LET i3 == SkipIf(f, SkipIf(f, i + 1, "inline"), "heading_close")
    IN  [i |-> i3,
         blocks |-> << [Blk("heading", f.toks[i]) EXCEPT !.bq = blockquote_depth] >>]

\* blocks put in front of the document body
AddBlocksFirst(doc, blocks) == blocks \o doc

\* self.doc.add_paragraph / add_heading / add_table: the block goes to the end of
\* the document body
AddBlocks(doc, blocks) == doc \o blocks

HandleParagraph(f, i) ==
    LET i3 == SkipIf(f, SkipIf(f, i + 1, "inline"), "paragraph_close")
    IN  [i |-> i3,
         blocks |-> << [Blk("paragraph", f.toks[i]) EXCEPT
                          !.indent = IF list_depth > 0 THEN (list_depth - 1) + 1 ELSE 0,
                          !.bq = blockquote_depth] >>]

DIAGRAM_LANGUAGES ==
    { MatrixInfo, <<"c", "h", "a", "r", "t">>, <<"g", "r", "a", "p", "h">>,
      <<"w", "o", "r", "k", "f", "l", "o", "w">> }

is_diagram_language(language) == Lower[Strip[language]] \in DIAGRAM_LANGUAGES

\* what the matplotlib renderers can give back to render_diagram_to_doc
RenderOutcomes == { "image", "image_caption", "no_image", "raise", "raise_after_image" }

render_diagram_to_doc(tok, language, outcome) ==
    IF Lower[Strip[language]] \notin DIAGRAM_LANGUAGES THEN <<>>
    ELSE IF outcome = "raise" THEN << Blk("diagram_error", tok) >>
    ELSE IF outcome = "raise_after_image"
    THEN << Blk("image", tok), Blk("diagram_error", tok) >>
    ELSE IF outcome = "no_image" THEN << Blk("diagram_failed", tok) >>
    ELSE IF outcome = "image_caption" THEN << Blk("image", tok), Blk("caption", tok) >>
    ELSE << Blk("image", tok) >>

add_code_block_to_doc(tok, code, language) ==
    IF RStripNewline[code] = <<>> THEN <<>>
    ELSE (IF Strip[language] # <<>> THEN << Blk("code_label", tok) >> ELSE <<>>)
         \o << Blk("code", tok) >>

\* token.info.strip().split()[0]: IndexError when the info holds only whitespace
LanguageRaises(token) == token.info # <<>> /\ Split[Strip[token.info]] = <<>>
LanguageOf(token) == IF token.info # <<>> THEN Split[Strip[token.info]][1] ELSE <<>>

HandleCodeBlock(tok, outcome) ==
    LET token == tokens[tok]
    IN  IF LanguageRaises(token)
        THEN [raised |-> TRUE, to |-> "nobody", blocks |-> <<>>]
        ELSE IF is_diagram_language(LanguageOf(token))
        THEN [raised |-> FALSE, to |-> "diagram",
              blocks |-> render_diagram_to_doc(tok, LanguageOf(token), outcome)]
        ELSE [raised |-> FALSE, to |-> "code",
              blocks |-> add_code_block_to_doc(tok, token.content, LanguageOf(token))]

\* latex_to_omml_para gives a tree (translated) or None
HandleMathBlock(tok, translated) ==
    IF Strip[tokens[tok].content] = <<>> THEN <<>>
    ELSE IF translated THEN << Blk("math", tok) >>
    ELSE << Blk("math_fallback", tok) >>

(***************************************************************************)
(* Paths and files.  A file is its path and what the disk holds under it:  *)
(* "text" (readable markdown), "missing" (the path does not exist: a       *)
(* dangling link, a file removed after the directory was listed) or        *)
(* "unreadable" (open() or read() raises).                                 *)
(***************************************************************************)
File(path, state) == [path |-> path, state |-> state]

\* str.endswith
EndsWith(s, suffix) ==
    /\ Len(s) >= Len(suffix)
    /\ SubSeq(s, Len(s) - Len(suffix) + 1, Len(s)) = suffix

\* input_path.lower().endswith(".md")
HasMdSuffix(path) == EndsWith(Lower[path], <<".", "m", "d">>)

\* os.path.splitext(path)[0] for a path without directory separators: the extension
\* starts at the last dot, a leading dot is part of the name
SplitExtRoot(path) ==
    LET dots == { k \in 2..Len(path) : path[k] = "." }
    IN  IF dots = {} THEN path
        ELSE SubSeq(path, 1, (CHOOSE k \in dots : \A j \in dots : j <= k) - 1)

\* os.path.splitext(rel_path)[0] + ".docx"
DocxPath(path) == SplitExtRoot(path) \o <<".", "d", "o", "c", "x">>

\* the characters of the paths, in code point order
CodePoints == <<".", "A", "B", "D", "M", "a", "b", "c", "d", "m", "t", "x">>
Ord(c) == CHOOSE k \in 1..Len(CodePoints) : CodePoints[k] = c

\* s < t for Python strings
StrLess(s, t) ==
    \E k \in 1..(Len(t)) :
        /\ k <= Len(s) + 1
        /\ SubSeq(s, 1, k - 1) = SubSeq(t, 1, k - 1)
        /\ k <= Len(s) => Ord(s[k]) < Ord(t[k])

\* sorted(glob.glob(pattern)): glob returns each path once
Sorted(files) ==
    [k \in 1..Cardinality(files) |->
        CHOOSE f \in files : Cardinality({ g \in files : StrLess(g.path, f.path) }) = k - 1]

\* the file of the current iteration, before and after convert_file took it
CurrentFile == md_files[Len(md_files) - md_left + 1]
Converted == md_files[Len(md_files) - md_left]

\* convert_file up to the build: the exception it raises, or "build"
ConvertFileOutcome(file) ==
    IF file.state = "missing" THEN "FileNotFoundError"
    ELSE IF ~HasMdSuffix(file.path) THEN "ValueError"
    ELSE IF file.state = "unreadable" THEN "OSError"
    ELSE "build"

(***************************************************************************)
(* convert_file: a fresh DocxBuilder per document, then build().           *)
(***************************************************************************)
\* one builder object reused for every document
DocxBuilderKept(old) == old

\* DocxBuilder.__init__: the traversal state of the new builder, `old` being the
\* state the previous document's builder was left in
DocxBuilderInit(old) ==
    [blockquote_depth |-> 0, list_depth |-> 0, ordered_counters |-> EmptyDict]

Identity(n) == [k \in 1..n |-> k]

ConvertFile(D) ==
    /\ pc = "idle"
    /\ cd_pc \in { "off", "loop" }
    /\ md_left > 0
    /\ ConvertFileOutcome(CurrentFile) = "build"
    /\ \E doc \in D :
         LET b == DocxBuilderInit([blockquote_depth |-> blockquote_depth,
                                   list_depth |-> list_depth,
                                   ordered_counters |-> ordered_counters])
         IN  /\ tokens' = doc
             /\ blockquote_depth' = b.blockquote_depth
             /\ list_depth' = b.list_depth
             /\ ordered_counters' = b.ordered_counters
             /\ entry' = b
             /\ stack' = << Frame("process", Identity(Len(doc)), 1, "loop") >>
             /\ visits' = [t \in 1..Len(doc) |-> 0]
             /\ collects' = [t \in 1..Len(doc) |-> 0]
    /\ pc' = "running"
    /\ out' = <<>>
    /\ lastRet' = NoRet
    /\ exits' = <<>>
    /\ handoffs' = <<>>
    /\ md_left' = md_left - 1
    /\ UNCHANGED <<results, callerVars, mathVars, inlineVars>>

\* convert_file raises before a builder exists (core.py lines 37-52)
ConvertFileRaises ==
    /\ pc = "idle"
    /\ cd_pc \in { "off", "loop" }
    /\ md_left > 0
    /\ ConvertFileOutcome(CurrentFile) # "build"
    /\ pc' = "failed"
    /\ md_left' = md_left - 1
    /\ UNCHANGED <<tokens, stack, blockquote_depth, list_depth, ordered_counters, out,
                   visits, collects, lastRet, exits, entry, handoffs, results,
                   callerVars, mathVars, inlineVars>>

(***************************************************************************)
(* DocxBuilder._process_tokens: one action per branch of the dispatch.     *)
(***************************************************************************)
AtToken(fn, at, types) ==
    /\ Running(fn, at)
    /\ InRange(F, F.i)
    /\ Here(F) \in types

\* a loopless handler ran: cursor to r.i, its blocks appended
Handled(name, r) ==
    /\ stack' = SetTop([F EXCEPT !.i = r.i])
    /\ out' = AddBlocks(out, r.blocks)
    /\ visits' = Visit(Passed(F, F.i, r.i))
    /\ lastRet' = Ret(name, F.toks, F.i, r.i)
    /\ UNCHANGED <<tokens, pc, blockquote_depth, list_depth, ordered_counters,
                   collects, exits, entry, handoffs, md_left, results, callerVars, mathVars, inlineVars>>

\* "i += 1" forgotten in the skipping branch
SkipStuck == UNCHANGED vars

\* the cursor moves one token on and nothing else happens
Skip ==
    /\ stack' = SetTop([F EXCEPT !.i = F.i + 1])
    /\ visits' = Visit(Passed(F, F.i, F.i + 1))
    /\ UNCHANGED <<tokens, pc, blockquote_depth, list_depth, ordered_counters, out,
                   collects, lastRet, exits, entry, handoffs, md_left, results, callerVars, mathVars, inlineVars>>

\* _handle_code_block(token); i += 1
DoCodeBlock ==
    \E outcome \in RenderOutcomes :
        LET r == HandleCodeBlock(F.toks[F.i], outcome)
        IN  IF r.raised
            THEN Raise /\ handoffs' = Append(handoffs, [tok |-> F.toks[F.i], to |-> r.to])
            ELSE /\ stack' = SetTop([F EXCEPT !.i = F.i + 1])
                 /\ out' = AddBlocks(out, r.blocks)
                 /\ visits' = Visit(Passed(F, F.i, F.i + 1))
                 /\ handoffs' = Append(handoffs, [tok |-> F.toks[F.i], to |-> r.to])
                 /\ UNCHANGED <<tokens, pc, blockquote_depth, list_depth,
                                ordered_counters, collects, lastRet, exits, entry,
                                md_left, results, callerVars, mathVars, inlineVars>>

\* _handle_math_block(token); i += 1
DoMathBlock ==
    \E translated \in BOOLEAN :
        /\ stack' = SetTop([F EXCEPT !.i = F.i + 1])
        /\ out' = AddBlocks(out, HandleMathBlock(F.toks[F.i], translated))
        /\ visits' = Visit(Passed(F, F.i, F.i + 1))
        /\ UNCHANGED <<tokens, pc, blockquote_depth, list_depth, ordered_counters,
                       collects, lastRet, exits, entry, handoffs, md_left, results, callerVars, mathVars, inlineVars>>

\* every list keeps its counter under the same key
ListDepthKeyFlat(depthAfterIncrement) == 0

\* the key of a list's counter: depth = self._list_depth - 1 after the increment
ListDepthKey(depthAfterIncrement) == depthAfterIncrement - 1

\* if ordered: self._ordered_counters[depth] = 0
\* the counter of an ordered list kept under the depth after the increment
ListOpenCountersBelow(oc, depth, ordered) ==
    IF ordered THEN DictPut(oc, depth + 1, 0) ELSE oc

ListOpenCounters(oc, depth, ordered) == IF ordered THEN DictPut(oc, depth, 0) ELSE oc

\* the call of _handle_list up to its loop (lines 226-232)
EnterList ==
    LET ordered == Here(F) = "ordered_list_open"
        depth == ListDepthKey(list_depth + 1)
        callee == [Frame("list", F.toks, F.i + 1, "list") EXCEPT
                      !.start = F.i, !.ordered = ordered, !.depth = depth]
    IN  /\ list_depth' = list_depth + 1
        /\ ordered_counters' = ListOpenCounters(ordered_counters, depth, ordered)
        /\ stack' = Push(F, callee)
        /\ visits' = Visit(Passed(F, F.i, F.i + 1))
        /\ UNCHANGED <<tokens, pc, blockquote_depth, out, collects, lastRet, exits,
                       entry, handoffs, md_left, results, callerVars, mathVars, inlineVars>>

\* the call of _handle_blockquote up to its loop (lines 317-321)
EnterBlockquote ==
    LET callee == [Frame("blockquote", F.toks, F.i + 1, "collect") EXCEPT
                      !.start = F.i, !.depth = 1, !.pre = blockquote_depth]
    IN  /\ blockquote_depth' = blockquote_depth + 1
        /\ stack' = Push(F, callee)
        /\ visits' = Visit(Passed(F, F.i, F.i + 1))
        /\ UNCHANGED <<tokens, pc, list_depth, ordered_counters, out, collects,
                       lastRet, exits, entry, handoffs, md_left, results, callerVars, mathVars, inlineVars>>

ListOpens == { "bullet_list_open", "ordered_list_open" }
ListCloses == { "bullet_list_close", "ordered_list_close" }
CodeTypes == { "fence", "code_block" }
MathTypes == { "math_block", "math_block_eqno" }
Dispatched ==
    { "heading_open", "paragraph_open", "blockquote_open", "table_open", "hr",
      "footnote_block_open" } \cup ListOpens \cup CodeTypes \cup MathTypes

PT_Heading == AtToken("process", "loop", { "heading_open" })
              /\ Handled("heading", HandleHeading(F, F.i))

PT_Paragraph == AtToken("process", "loop", { "paragraph_open" })
                /\ Handled("paragraph", HandleParagraph(F, F.i))

PT_CodeBlock == AtToken("process", "loop", CodeTypes) /\ DoCodeBlock

PT_MathBlock == AtToken("process", "loop", MathTypes) /\ DoMathBlock

PT_List == AtToken("process", "loop", ListOpens) /\ EnterList

PT_Blockquote == AtToken("process", "loop", { "blockquote_open" }) /\ EnterBlockquote

\* add_horizontal_rule(self.doc); i += 1
PT_Hr ==
    /\ AtToken("process", "loop", { "hr" })
    /\ stack' = SetTop([F EXCEPT !.i = F.i + 1])
    /\ out' = AddBlocks(out, << Blk("hr", F.toks[F.i]) >>)
    /\ visits' = Visit(Passed(F, F.i, F.i + 1))
    /\ UNCHANGED <<tokens, pc, blockquote_depth, list_depth, ordered_counters,
                   collects, lastRet, exits, entry, handoffs, md_left, results, callerVars, mathVars, inlineVars>>

\* html_block, front_matter and every unknown type: i += 1
PT_Skip ==
    /\ Running("process", "loop")
    /\ InRange(F, F.i)
    /\ Here(F) \notin Dispatched
    /\ Skip

\* the loop of _process_tokens ends: build() saves, or the blockquote handler resumes
PT_Return ==
    /\ Running("process", "loop")
    /\ ~InRange(F, F.i)
    /\ stack' = SubSeq(stack, 1, Len(stack) - 1)
    /\ pc' = IF Len(stack) = 1 THEN "done" ELSE pc
    /\ UNCHANGED <<tokens, blockquote_depth, list_depth, ordered_counters, out,
                   visits, collects, lastRet, exits, entry, handoffs, md_left,
                   results, callerVars, mathVars, inlineVars>>

(***************************************************************************)
(* DocxBuilder._handle_list                                                *)
(***************************************************************************)
\* on list_item_open: the counter of this depth if the list is ordered
ItemCounters(oc, depth, ordered) ==
    IF ordered THEN DictPut(oc, depth, DictGet(oc, depth, 0) + 1) ELSE oc

\* the del of the epilogue forgotten
ListCloseCountersKept(oc, depth, ordered) == oc

\* after the loop: if ordered and depth in self._ordered_counters: del
ListCloseCounters(oc, depth, ordered) ==
    IF ordered /\ depth \in DOMAIN oc THEN DictDel(oc, depth) ELSE oc

\* the glyphs U+2022, U+25E6, U+25AA, U+25B9, U+2022, U+25E6, by name
bullets == <<"bullet", "white_bullet", "small_square", "triangle", "bullet",
             "white_bullet">>

Min(a, b) == IF a < b THEN a ELSE b

\* bullets[min(depth, len(bullets) - 1)], as a 1-based index into bullets
BulletIndex(depth) == Min(depth, Len(bullets) - 1) + 1

\* the paragraph of a list item (lines 249-286)
ListRow(f, i) ==
    LET i3 == SkipIf(f, SkipIf(f, i + 1, "inline"), "paragraph_close")
    IN  [i |-> i3,
         blocks |-> << [Blk("list_row", f.toks[i]) EXCEPT
                          !.indent = f.depth + 1,
                          !.ordered = f.ordered,
                          !.num = IF f.ordered
                                  THEN DictGet(ordered_counters, f.depth, 1) ELSE 0,
                          !.glyph = IF f.ordered THEN 0 ELSE BulletIndex(f.depth),
                          !.bq = blockquote_depth] >>]

\* the outer loop, on a token that does not close the list
HL_ListStep ==
    /\ Running("list", "list")
    /\ InRange(F, F.i)
    /\ Here(F) \notin ListCloses
    /\ LET item == Here(F) = "list_item_open"
       IN  /\ ordered_counters' =
                 IF item THEN ItemCounters(ordered_counters, F.depth, F.ordered)
                 ELSE ordered_counters
           /\ stack' = SetTop([F EXCEPT !.i = F.i + 1,
                                        !.at = IF item THEN "item" ELSE "list"])
    /\ visits' = Visit(Passed(F, F.i, F.i + 1))
    /\ UNCHANGED <<tokens, pc, blockquote_depth, list_depth, out, collects, lastRet,
                   exits, entry, handoffs, md_left, results, callerVars, mathVars, inlineVars>>

\* the outer loop ends (list close, or the tokens ran out): lines 309-313
HL_Exit ==
    /\ Running("list", "list")
    /\ ~InRange(F, F.i) \/ Here(F) \in ListCloses
    /\ LET to == IF InRange(F, F.i) THEN F.i + 1 ELSE F.i
       IN  /\ stack' = ReturnTo(to)
           /\ visits' = Visit(Passed(F, F.i, to))
           /\ lastRet' = Ret("list", F.toks, F.start, to)
    /\ list_depth' = list_depth - 1
    /\ ordered_counters' = ListCloseCounters(ordered_counters, F.depth, F.ordered)
    /\ UNCHANGED <<tokens, pc, blockquote_depth, out, collects, exits, entry,
                   handoffs, md_left, results, callerVars, mathVars, inlineVars>>

HL_ItemPara == AtToken("list", "item", { "paragraph_open" })
               /\ Handled("list_row", ListRow(F, F.i))

HL_ItemList == AtToken("list", "item", ListOpens) /\ EnterList

HL_ItemCode == AtToken("list", "item", CodeTypes) /\ DoCodeBlock

HL_ItemMath == AtToken("list", "item", MathTypes) /\ DoMathBlock

HL_ItemQuote == AtToken("list", "item", { "blockquote_open" }) /\ EnterBlockquote

ItemDispatched ==
    { "paragraph_open", "blockquote_open", "list_item_close" }
    \cup ListOpens \cup CodeTypes \cup MathTypes

HL_ItemSkip ==
    /\ Running("list", "item")
    /\ InRange(F, F.i)
    /\ Here(F) \notin ItemDispatched
    /\ Skip

\* the item's loop ends; the list_item_close is skipped if it is there
HL_ItemEnd ==
    /\ Running("list", "item")
    /\ ~InRange(F, F.i) \/ Here(F) = "list_item_close"
    /\ LET to == SkipIf(F, F.i, "list_item_close")
       IN  /\ stack' = SetTop([F EXCEPT !.i = to, !.at = "list"])
           /\ visits' = Visit(Passed(F, F.i, to))
    /\ UNCHANGED <<tokens, pc, blockquote_depth, list_depth, ordered_counters, out,
                   collects, lastRet, exits, entry, handoffs, md_left, results, callerVars, mathVars, inlineVars>>

(***************************************************************************)
(* DocxBuilder._handle_blockquote                                          *)
(***************************************************************************)
ClosesQuote(f) == InRange(f, f.i) /\ Here(f) = "blockquote_close" /\ f.depth = 1

\* one iteration of the collecting loop that appends tokens[i]
HB_Collect ==
    /\ Running("blockquote", "collect")
    /\ InRange(F, F.i)
    /\ ~ClosesQuote(F)
    /\ stack' = SetTop([F EXCEPT
            !.depth = IF Here(F) = "blockquote_open" THEN F.depth + 1
                      ELSE IF Here(F) = "blockquote_close" THEN F.depth - 1
                      ELSE F.depth,
            !.inner = Append(F.inner, F.toks[F.i]),
            !.i = F.i + 1])
    /\ collects' = [collects EXCEPT ![F.toks[F.i]] = @ + 1]
    /\ UNCHANGED <<tokens, pc, blockquote_depth, list_depth, ordered_counters, out,
                   visits, lastRet, exits, entry, handoffs, md_left, results, callerVars, mathVars, inlineVars>>

\* "i += 1" forgotten before the break on the matching blockquote_close
QuoteCloseCursorStays(f) == f.i

\* lines 327-329: i += 1 before the break on the matching close
QuoteCloseCursor(f) == IF ClosesQuote(f) THEN f.i + 1 ELSE f.i

\* the loop ends on the matching close; self._process_tokens(inner_tokens) is called
HB_Call ==
    /\ Running("blockquote", "collect")
    /\ ~InRange(F, F.i) \/ ClosesQuote(F)
    /\ LET to == QuoteCloseCursor(F)
           me == [F EXCEPT !.i = to, !.at = "called",
                           !.depth = IF ClosesQuote(F) THEN 0 ELSE F.depth]
       IN  /\ stack' = Push(me, Frame("process", F.inner, 1, "loop"))
           /\ visits' = Visit(Passed(F, F.i, to))
    /\ UNCHANGED <<tokens, pc, blockquote_depth, list_depth, ordered_counters, out,
                   collects, lastRet, exits, entry, handoffs, md_left, results, callerVars, mathVars, inlineVars>>

\* self._blockquote_depth -= 1
BlockquoteDepthAfter(d) == d - 1

\* the recursive call returned: the depth is decremented and i returned
HB_Return ==
    /\ Running("blockquote", "called")
    /\ blockquote_depth' = BlockquoteDepthAfter(blockquote_depth)
    /\ stack' = ReturnTo(F.i)
    /\ lastRet' = Ret("blockquote", F.toks, F.start, F.i)
    /\ exits' = Append(exits, [how |-> "return", pre |-> F.pre,
                               post |-> blockquote_depth'])
    /\ UNCHANGED <<tokens, pc, list_depth, ordered_counters, out, visits, collects,
                   entry, handoffs, md_left, results, callerVars, mathVars, inlineVars>>

(***************************************************************************)
(* DocxBuilder._handle_table                                               *)
(***************************************************************************)
EnterTable ==
    /\ stack' = Push(F, [Frame("table", F.toks, F.i + 1, "loop") EXCEPT !.start = F.i])
    /\ visits' = Visit(Passed(F, F.i, F.i + 1))
    /\ UNCHANGED <<tokens, pc, blockquote_depth, list_depth, ordered_counters, out,
                   collects, lastRet, exits, entry, handoffs, md_left, results, callerVars, mathVars, inlineVars>>

PT_Table == AtToken("process", "loop", { "table_open" }) /\ EnterTable

\* a cell: (inline_tok, is_header_section, align); align is not modelled
Cell(f, k) ==
    [inline_tok |-> IF InRange(f, k) /\ TypeAt(f, k) = "inline" THEN f.toks[k] ELSE 0,
     is_header |-> f.is_header_section]

\* one iteration of the loop of _handle_table on a token other than table_close
TableStep(f) ==
    LET t == Here(f)
        afterCell == SkipIf(f, f.i + 1, "inline")
    IN  IF t = "thead_open" THEN [f EXCEPT !.is_header_section = TRUE, !.i = f.i + 1]
        ELSE IF t = "thead_close"
        THEN [f EXCEPT !.is_header_section = FALSE, !.i = f.i + 1]
        ELSE IF t = "tr_open" THEN [f EXCEPT !.current_row = <<>>, !.i = f.i + 1]
        ELSE IF t = "tr_close"
        THEN [f EXCEPT !.rows_data = Append(f.rows_data,
                                            [cells |-> f.current_row,
                                             is_hdr |-> f.is_header_section]),
                       !.i = f.i + 1]
        ELSE IF t \in { "th_open", "td_open" }
        THEN [f EXCEPT !.current_row = Append(f.current_row, Cell(f, f.i + 1)),
                       !.i = IF InRange(f, afterCell)
                                /\ TypeAt(f, afterCell) \in { "th_close", "td_close" }
                             THEN afterCell + 1 ELSE afterCell]
        ELSE [f EXCEPT !.i = f.i + 1]

HT_Step ==
    /\ AtToken("table", "loop", { tokens[t].type : t \in DOMAIN tokens } \ { "table_close" })
    /\ stack' = SetTop(TableStep(F))
    /\ visits' = Visit(Passed(F, F.i, TableStep(F).i))
    /\ UNCHANGED <<tokens, pc, blockquote_depth, list_depth, ordered_counters, out,
                   collects, lastRet, exits, entry, handoffs, md_left, results, callerVars, mathVars, inlineVars>>

Max(S) == CHOOSE m \in S : \A x \in S : x <= m

\* the width of the first row taken for the width of the table
NumColsOfHead(rows_data) == Len(rows_data[1].cells)

\* num_cols = max(len(row) for row, _ in rows_data)
NumCols(rows_data) == Max({ Len(rows_data[r].cells) : r \in DOMAIN rows_data })

\* lines 387-422: the table appended for rows_data, none when there is no cell
BuildTable(tok, rows_data) ==
    IF rows_data = <<>> THEN <<>>
    ELSE IF NumCols(rows_data) = 0 THEN <<>>
    ELSE LET filled == { <<r, c>> \in (DOMAIN rows_data) \X (1..NumCols(rows_data)) :
                            c <= Len(rows_data[r].cells) }
         IN  << [Blk("table", tok) EXCEPT
                   !.rows = Len(rows_data),
                   !.cols = NumCols(rows_data),
                   !.filled = filled,
                   !.header = { rc \in filled :
                                   \/ rows_data[rc[1]].cells[rc[2]].is_header
                                   \/ rows_data[rc[1]].is_hdr }] >>

\* the loop ends (table_close, or the tokens ran out) and the table is built
HT_Exit ==
    /\ Running("table", "loop")
    /\ ~InRange(F, F.i) \/ Here(F) = "table_close"
    /\ LET to == SkipIf(F, F.i, "table_close")
       IN  /\ stack' = ReturnTo(to)
           /\ visits' = Visit(Passed(F, F.i, to))
           /\ lastRet' = Ret("table", F.toks, F.start, to)
    /\ out' = AddBlocks(out, BuildTable(F.toks[F.start], F.rows_data))
    /\ UNCHANGED <<tokens, pc, blockquote_depth, list_depth, ordered_counters,
                   collects, exits, entry, handoffs, md_left, results, callerVars, mathVars, inlineVars>>

(***************************************************************************)
(* DocxBuilder._handle_footnote_block                                      *)
(***************************************************************************)
PT_Footnote ==
    /\ AtToken("process", "loop", { "footnote_block_open" })
    /\ stack' = Push(F, [Frame("footnote", F.toks, F.i + 1, "loop") EXCEPT
                            !.start = F.i, !.depth = 1])
    /\ out' = AddBlocks(out, << Blk("hr", F.toks[F.i]), Blk("footnote_title", F.toks[F.i]) >>)
    /\ visits' = Visit(Passed(F, F.i, F.i + 1))
    /\ UNCHANGED <<tokens, pc, blockquote_depth, list_depth, ordered_counters,
                   collects, lastRet, exits, entry, handoffs, md_left, results, callerVars, mathVars, inlineVars>>

ClosesFootnotes(f) ==
    InRange(f, f.i) /\ Here(f) = "footnote_block_close" /\ f.depth = 1

\* one iteration of the loop that does not break: the frame and the blocks after it
FootnoteStep(f) ==
    LET t == Here(f)
        hasInline == InRange(f, f.i + 1) /\ TypeAt(f, f.i + 1) = "inline"
    IN  IF t = "footnote_block_open"
        THEN [f |-> [f EXCEPT !.depth = f.depth + 1, !.i = f.i + 1], blocks |-> <<>>]
        ELSE IF t = "footnote_block_close"
        THEN [f |-> [f EXCEPT !.depth = f.depth - 1, !.i = f.i + 1], blocks |-> <<>>]
        ELSE IF t = "paragraph_open"
        THEN [f |-> [f EXCEPT !.i = SkipIf(f, SkipIf(f, f.i + 1, "inline"),
                                           "paragraph_close")],
              blocks |-> IF hasInline
                         THEN << [Blk("footnote_para", f.toks[f.i]) EXCEPT !.indent = 1] >>
                         ELSE <<>>]
        ELSE [f |-> [f EXCEPT !.i = f.i + 1], blocks |-> <<>>]

HF_Step ==
    /\ Running("footnote", "loop")
    /\ InRange(F, F.i)
    /\ F.depth > 0
    /\ ~ClosesFootnotes(F)
    /\ stack' = SetTop(FootnoteStep(F).f)
    /\ out' = AddBlocks(out, FootnoteStep(F).blocks)
    /\ visits' = Visit(Passed(F, F.i, FootnoteStep(F).f.i))
    /\ UNCHANGED <<tokens, pc, blockquote_depth, list_depth, ordered_counters,
                   collects, lastRet, exits, entry, handoffs, md_left, results, callerVars, mathVars, inlineVars>>

HF_Exit ==
    /\ Running("footnote", "loop")
    /\ ~InRange(F, F.i) \/ F.depth <= 0 \/ ClosesFootnotes(F)
    /\ LET to == IF ClosesFootnotes(F) /\ F.depth > 0 THEN F.i + 1 ELSE F.i
       IN  /\ stack' = ReturnTo(to)
           /\ visits' = Visit(Passed(F, F.i, to))
           /\ lastRet' = Ret("footnote", F.toks, F.start, to)
    /\ UNCHANGED <<tokens, pc, blockquote_depth, list_depth, ordered_counters, out,
                   collects, exits, entry, handoffs, md_left, results, callerVars, mathVars, inlineVars>>

(***************************************************************************)
(* convert_directory: the files found are converted one after the other,   *)
(* each file's outcome is appended to results.                             *)
(***************************************************************************)
\* the paths a directory can hold that match *.md
DirPaths ==
    LET pool == << <<"b", ".", "m", "d">>, <<"a", ".", "m", "d">>,
                   <<"B", ".", "m", "d">>, <<"c", ".", "m", "d">> >>
    IN  { pool[k] : k \in 1..Min(MaxFiles, Len(pool)) }

FileStates == { "text", "missing", "unreadable" }

\* what glob.glob(pattern) can return: any of the paths, each in some state
GlobResults ==
    UNION { { { File(path, st[path]) : path \in P } : st \in [P -> FileStates] }
            : P \in SUBSET DirPaths }

\* convert_directory up to its loop (lines 82-103)
ConvertDirectory ==
    /\ cd_pc = "glob"
    /\ \E found \in GlobResults :
         /\ md_files' = Sorted(found)
         /\ md_left' = Cardinality(found)
         /\ cd_pc' = IF found = {} THEN "returned" ELSE "loop"
    /\ results' = <<>>
    /\ UNCHANGED <<tokens, pc, stack, blockquote_depth, list_depth, ordered_counters,
                   out, visits, collects, lastRet, exits, entry, handoffs,
                   main_pc, input_path, exit_code, mathVars, inlineVars>>

\* the exception leaves the loop: the files after the failing one are dropped
LoopStops(left, ok) == IF ok THEN left ELSE 0

\* the files still to convert after an iteration that succeeded (ok) or whose
\* exception was caught by "except Exception"
LoopAfter(left, ok) == left

\* str(e) of the exception convert_file raised for the file
ErrorOf(file) ==
    LET early == ConvertFileOutcome(file)
    IN  IF early = "build" THEN "IndexError" ELSE early

\* convert_file returned or raised: its token list and document are dropped, and the
\* builder object is left behind in whatever traversal state it had (`left`, history)
RecordResult ==
    /\ cd_pc = "loop"
    /\ pc \in { "done", "failed" }
    /\ results' = Append(results,
                         [input |-> Converted.path,
                          output |-> DocxPath(Converted.path),
                          ok |-> pc = "done",
                          error |-> IF pc = "done" THEN "None" ELSE ErrorOf(Converted),
                          left |-> [blockquote_depth |-> blockquote_depth,
                                    list_depth |-> list_depth,
                                    ordered_counters |-> ordered_counters]])
    /\ md_left' = LoopAfter(md_left, pc = "done")
    /\ pc' = "idle"
    /\ tokens' = <<>>
    /\ out' = <<>>
    /\ visits' = <<>>
    /\ collects' = <<>>
    /\ lastRet' = NoRet
    /\ exits' = <<>>
    /\ handoffs' = <<>>
    /\ UNCHANGED <<stack, blockquote_depth, list_depth, ordered_counters, entry,
                   callerVars, mathVars, inlineVars>>

\* the loop is over: return results
ConvertDirectoryReturn ==
    /\ cd_pc = "loop"
    /\ pc = "idle"
    /\ md_left = 0
    /\ cd_pc' = "returned"
    /\ UNCHANGED <<tokens, pc, stack, blockquote_depth, list_depth, ordered_counters,
                   out, visits, collects, lastRet, exits, entry, handoffs, md_left,
                   results, md_files, main_pc, input_path, exit_code, mathVars, inlineVars>>

(***************************************************************************)
(* cli.main: the branch on the input path, and the exit code.              *)
(***************************************************************************)
\* what args.input can name: kind is "file" (os.path.isfile), "dir" (os.path.isdir)
\* or "other" (neither)
Input(path, kind, state) == [path |-> path, kind |-> kind, state |-> state]
NoInput == Input(<<>>, "none", "none")

FilePaths ==
    { <<"a", ".", "m", "d">>, <<"A", ".", "M", "D">>, <<"a", ".", "t", "x", "t">>,
      <<"m", "d">>, <<"a", ".", "m", "d", "x">> }

Inputs ==
    { Input(p, "file", st) : p \in FilePaths, st \in { "text", "unreadable" } }
    \cup { Input(<<"d">>, "dir", "dir"), Input(<<"d", ".", "m", "d">>, "dir", "dir"),
           Input(<<"x">>, "other", "missing"), Input(<<"x", ".", "m", "d">>, "other", "missing") }

Exit(code) ==
    /\ main_pc' = "exit"
    /\ exit_code' = code

\* main calls convert_file for every file, leaving the suffix to the core
MainSuffixUnchecked(path) == TRUE

\* the test of line 65 that lets main go on to convert_file
MainSuffixCheck(path) == HasMdSuffix(path)

\* os.path.isfile(input_path): lines 63-69 up to the call of convert_file
Main_File ==
    /\ main_pc = "start"
    /\ \E inp \in Inputs :
         /\ inp.kind = "file"
         /\ input_path' = inp
         /\ IF MainSuffixCheck(inp.path)
              THEN /\ md_files' = << File(inp.path, inp.state) >>
                   /\ md_left' = 1
                   /\ main_pc' = "convert_file"
                   /\ UNCHANGED exit_code
              ELSE /\ Exit(1)
                   /\ UNCHANGED <<md_files, md_left>>
    /\ UNCHANGED <<tokens, pc, stack, blockquote_depth, list_depth, ordered_counters,
                   out, visits, collects, lastRet, exits, entry, handoffs, results,
                   cd_pc, mathVars, inlineVars>>

\* convert_file returned ("Done") or raised (except Exception: sys.exit(1))
Main_FileReturn ==
    /\ main_pc = "convert_file"
    /\ pc \in { "done", "failed" }
    /\ Exit(IF pc = "done" THEN 0 ELSE 1)
    /\ UNCHANGED <<tokens, pc, stack, blockquote_depth, list_depth, ordered_counters,
                   out, visits, collects, lastRet, exits, entry, handoffs, md_left,
                   results, md_files, cd_pc, input_path, mathVars, inlineVars>>

\* os.path.isdir(input_path): lines 72-79, the call of convert_directory
Main_Directory ==
    /\ main_pc = "start"
    /\ \E inp \in Inputs :
         /\ inp.kind = "dir"
         /\ input_path' = inp
    /\ main_pc' = "convert_directory"
    /\ cd_pc' = "glob"
    /\ UNCHANGED <<tokens, pc, stack, blockquote_depth, list_depth, ordered_counters,
                   out, visits, collects, lastRet, exits, entry, handoffs, md_left,
                   results, md_files, exit_code, mathVars, inlineVars>>

\* convert_directory returned: lines 81-98
Main_DirectoryReturn ==
    /\ main_pc = "convert_directory"
    /\ cd_pc = "returned"
    /\ Exit(IF results = <<>> THEN 1 ELSE 0)
    /\ UNCHANGED <<tokens, pc, stack, blockquote_depth, list_depth, ordered_counters,
                   out, visits, collects, lastRet, exits, entry, handoffs, md_left,
                   results, md_files, cd_pc, input_path, mathVars, inlineVars>>

\* neither a file nor a directory: lines 100-102
Main_Invalid ==
    /\ main_pc = "start"
    /\ \E inp \in Inputs :
         /\ inp.kind = "other"
         /\ input_path' = inp
    /\ Exit(1)
    /\ UNCHANGED <<tokens, pc, stack, blockquote_depth, list_depth, ordered_counters,
                   out, visits, collects, lastRet, exits, entry, handoffs, md_left,
                   results, md_files, cd_pc, mathVars, inlineVars>>

(***************************************************************************)
(* math_renderer: MathML elements, OMML nodes, _convert_mathml_element.    *)
(*   a MathML element: tag (local name), text, kids, and the open / close  *)
(*   attributes of an mfenced (Absent when the attribute is not there);    *)
(*   generated elements carry no linethickness and no separators attribute *)
(*   and no tail text.                                                     *)
(*   an OMML node: tag, val (its m:val attribute or its text), kids.       *)
(***************************************************************************)
Absent == <<"absent">>

El(tag, text, kids) ==
    [tag |-> tag, text |-> text, kids |-> kids, open |-> Absent, close |-> Absent]

O(tag, val, kids) == [tag |-> tag, val |-> val, kids |-> kids]

\* Python's None where an element or a node is expected
NoMathml == El("None", <<>>, <<>>)
NoOmml == O("None", <<>>, <<>>)

\* etree.SubElement(parent, slot) followed by "if x is not None: slot.append(x)"
Slot(tag, content) == O(tag, <<>>, IF content = NoOmml THEN <<>> ELSE <<content>>)

\* _omml_run(text): <m:r><m:t>text</m:t></m:r>
OmmlRun(text) == O("r", <<>>, << O("t", text, <<>>) >>)

\* the child is appended as it is, whatever it is
AppendNested(parent, child) == [parent EXCEPT !.kids = Append(@, child)]

\* _append_flattened(parent, child)
AppendFlattened(parent, child) ==
    IF child.tag = "oMath" /\ parent.tag = "oMath"
    THEN [parent EXCEPT !.kids = @ \o child.kids]
    ELSE [parent EXCEPT !.kids = Append(@, child)]

\* _get_text(elem) before the final strip
RECURSIVE RawText(_)
RawText(elem) ==
    LET RECURSIVE OfKids(_)
        OfKids(ks) == IF ks = <<>> THEN <<>> ELSE RawText(Head(ks)) \o OfKids(Tail(ks))
    IN  elem.text \o OfKids(elem.kids)

GetText(elem) == Strip[RawText(elem)]

\* Python's "x or default" on strings
OrElse(text, default) == IF text = <<>> THEN default ELSE text

DigitChars == <<"0", "1", "2", "3", "4", "5", "6", "7", "8", "9">>

\* str.isdigit() of a one-character string
IsDigit(c) == \E k \in 1..Len(DigitChars) : DigitChars[k] = c

\* str(n) for n >= 0
StrOfInt[n \in Nat] ==
    IF n < 10 THEN <<DigitChars[n + 1]>>
    ELSE StrOfInt[n \div 10] \o <<DigitChars[(n % 10) + 1]>>

\* no operator character is recognized
NoNaryChars == {}

\* nary_chars: U+2211, U+220F, U+222B, U+222C, U+222D, U+22C3, U+22C2, U+22C1,
\* U+22C0, each one character, by name
nary_chars ==
    { <<"sum">>, <<"prod">>, <<"int">>, <<"iint">>, <<"iiint">>, <<"bigcup">>,
      <<"bigcap">>, <<"bigvee">>, <<"bigwedge">> }

TagsOf(kids) == [k \in 1..Len(kids) |-> kids[k].tag]

\* the m:d node of the matrix patterns: dPr with begChr and endChr, then e
Delimited(open_delim, close_delim, content) ==
    O("d", <<>>,
      << O("dPr", <<>>, << O("begChr", open_delim, <<>>), O("endChr", close_delim, <<>>) >>),
         Slot("e", content) >>)

\* mi, mn, mo, mtext
TokenRun(tag, text) ==
    IF text = <<>> THEN NoOmml
    ELSE O("r", <<>>,
           (IF tag = "mi" /\ Len(text) = 1
            THEN << O("rPr", <<>>,
                      << O("sty", IF IsDigit(text[1]) THEN <<"p">> ELSE <<"i">>, <<>>) >>) >>
            ELSE <<>>)
           \o << O("t", text, <<>>) >>)

\* the dPr of an mfenced: begChr / endChr only for a non-empty delimiter
FencedPr(elem) ==
    LET open_delim == IF elem.open = Absent THEN <<"(">> ELSE elem.open
        close_delim == IF elem.close = Absent THEN <<")">> ELSE elem.close
    IN  O("dPr", <<>>,
          (IF open_delim # <<>> THEN << O("begChr", open_delim, <<>>) >> ELSE <<>>)
          \o (IF close_delim # <<>> THEN << O("endChr", close_delim, <<>>) >> ELSE <<>>)
          \o << O("sepChr", <<",">>, <<>>) >>)

\* the elements of elems whose _local(tag) is tag, in order
RECURSIVE WithTag(_, _)
WithTag(elems, tag) ==
    IF elems = <<>> THEN <<>>
    ELSE (IF Head(elems).tag = tag THEN <<Head(elems)>> ELSE <<>>)
         \o WithTag(Tail(elems), tag)

\* the mPr of an mtable: the column count of the first mtr, if there is one
TablePr(elem) ==
    LET rows == WithTag(elem.kids, "mtr")
    IN  O("mPr", <<>>,
          IF rows = <<>> THEN <<>>
          ELSE << O("mcs", <<>>,
                    << O("mc", <<>>,
                         << O("mcPr", <<>>,
                              << O("count", StrOfInt[Len(rows[1].kids)], <<>>),
                                 O("mcJc", <<"c", "e", "n", "t", "e", "r">>, <<>>) >>) >>) >>) >>)

RECURSIVE Convert(_), AppendAll(_, _), PlainAll(_, _)

\* the loop is left at the first child that translates to nothing
RECURSIVE AppendAllUntilNone(_, _)
AppendAllUntilNone(parent, elems) ==
    IF elems = <<>> THEN parent
    ELSE LET result == Convert(Head(elems))
         IN  IF result = NoOmml THEN parent
             ELSE AppendAllUntilNone(AppendFlattened(parent, result), Tail(elems))

\* for child in elems: result = convert(child); if not None: _append_flattened
AppendAll(parent, elems) ==
    IF elems = <<>> THEN parent
    ELSE LET result == Convert(Head(elems))
         IN  AppendAll(IF result # NoOmml THEN AppendFlattened(parent, result) ELSE parent,
                       Tail(elems))

\* for child in elems: result = convert(child); if not None: parent.append(result)
PlainAll(parent, elems) ==
    IF elems = <<>> THEN parent
    ELSE LET result == Convert(Head(elems))
         IN  PlainAll(IF result # NoOmml THEN [parent EXCEPT !.kids = Append(@, result)]
                      ELSE parent,
                      Tail(elems))

\* the mrow branch (lines 139-228)
ConvertRow(elem) ==
    LET children == elem.kids
        child_tags == TagsOf(children)
        tables == { k \in 1..Len(children) : child_tags[k] = "mtable" }
        idx == IF tables = {} THEN 0 ELSE CHOOSE k \in tables : \A j \in tables : k <= j
        has_open == idx > 1 /\ child_tags[idx - 1] = "mo"
        has_close == idx > 0 /\ idx < Len(children) /\ child_tags[idx + 1] = "mo"
        before == SubSeq(children, 1, IF has_open THEN idx - 2 ELSE idx - 1)
        after == SubSeq(children, IF has_close THEN idx + 2 ELSE idx + 1, Len(children))
        d == Delimited(IF has_open THEN GetText(children[idx - 1]) ELSE <<>>,
                       IF has_close THEN GetText(children[idx + 1]) ELSE <<>>,
                       Convert(children[idx]))
    IN  IF child_tags = <<"mo", "mtable", "mo">>
        THEN Delimited(OrElse(GetText(children[1]), <<"(">>),
                       OrElse(GetText(children[3]), <<")">>), Convert(children[2]))
        ELSE IF child_tags = <<"mo", "mtable">>
        THEN Delimited(OrElse(GetText(children[1]), <<"{">>), <<>>, Convert(children[2]))
        ELSE IF idx > 0 /\ (has_open \/ has_close)
        THEN AppendAll([AppendAll(O("oMath", <<>>, <<>>), before)
                           EXCEPT !.kids = Append(@, d)],
                       after)
        ELSE AppendAll(O("oMath", <<>>, <<>>), children)

\* the munderover branch (lines 378-419)
ConvertUnderOver(elem) ==
    LET children == elem.kids
        base_text == GetText(children[1])
    IN  IF Len(children) < 3 THEN NoOmml
        ELSE IF base_text \in nary_chars
        THEN O("nary", <<>>,
               << O("naryPr", <<>>, << O("chr", base_text, <<>>) >>),
                  Slot("sub", Convert(children[2])),
                  Slot("sup", Convert(children[3])),
                  O("e", <<>>, <<>>) >>)
        ELSE O("sSup", <<>>,
               << O("e", <<>>,
                    << O("limLow", <<>>, << Slot("e", Convert(children[1])),
                                            Slot("lim", Convert(children[2])) >>) >>),
                  Slot("sup", Convert(children[3])) >>)

\* the mtable branch (lines 446-477)
ConvertTable(elem) ==
    LET CellE(cell) ==
            LET e == AppendAll(O("e", <<>>, <<>>), cell.kids)
            IN  IF Strip[cell.text] # <<>>
                THEN [e EXCEPT !.kids = Append(@, OmmlRun(Strip[cell.text]))]
                ELSE e
        RowMr(row) ==
            LET cells == WithTag(row.kids, "mtd")
            IN  O("mr", <<>>, [k \in 1..Len(cells) |-> CellE(cells[k])])
        rows == WithTag(elem.kids, "mtr")
    IN  O("m", <<>>, <<TablePr(elem)>> \o [k \in 1..Len(rows) |-> RowMr(rows[k])])

\* _convert_mathml_element(elem): the OMML node, or NoOmml for None
Convert(elem) ==
    LET tag == elem.tag
        children == elem.kids
        group == AppendAll(O("oMath", <<>>, <<>>), children)
    IN  CASE tag = "math" -> group
          [] tag = "mrow" -> ConvertRow(elem)
          [] tag \in { "mi", "mn", "mo", "mtext" } -> TokenRun(tag, Strip[elem.text])
          [] tag = "mfrac" ->
                IF Len(children) < 2 THEN NoOmml
                ELSE O("f", <<>>, << O("fPr", <<>>, <<>>),
                                     Slot("num", Convert(children[1])),
                                     Slot("den", Convert(children[2])) >>)
          [] tag = "msqrt" ->
                O("rad", <<>>,
                  << O("radPr", <<>>, << O("degHide", <<"1">>, <<>>) >>),
                     O("deg", <<>>, <<>>),
                     PlainAll(O("e", <<>>, <<>>), children) >>)
          [] tag = "mroot" ->
                O("rad", <<>>,
                  << O("radPr", <<>>, <<>>),
                     IF Len(children) > 1 THEN Slot("deg", Convert(children[2]))
                     ELSE O("deg", <<>>, <<>>),
                     IF children # <<>> THEN Slot("e", Convert(children[1]))
                     ELSE O("e", <<>>, <<>>) >>)
          [] tag = "msup" ->
                IF Len(children) < 2 THEN NoOmml
                ELSE O("sSup", <<>>, << Slot("e", Convert(children[1])),
                                        Slot("sup", Convert(children[2])) >>)
          [] tag = "msub" ->
                IF Len(children) < 2 THEN NoOmml
                ELSE O("sSub", <<>>, << Slot("e", Convert(children[1])),
                                        Slot("sub", Convert(children[2])) >>)
          [] tag = "msubsup" ->
                IF Len(children) < 3 THEN NoOmml
                ELSE O("sSubSup", <<>>, << Slot("e", Convert(children[1])),
                                           Slot("sub", Convert(children[2])),
                                           Slot("sup", Convert(children[3])) >>)
          [] tag = "mover" ->
                IF Len(children) < 2 THEN NoOmml
                ELSE O("acc", <<>>,
                       << O("accPr", <<>>,
                            IF GetText(children[2]) # <<>>
                            THEN << O("chr", GetText(children[2]), <<>>) >> ELSE <<>>),
                          Slot("e", Convert(children[1])) >>)
          [] tag = "munder" ->
                IF Len(children) < 2 THEN NoOmml
                ELSE O("limLow", <<>>, << Slot("e", Convert(children[1])),
                                          Slot("lim", Convert(children[2])) >>)
          [] tag = "munderover" -> ConvertUnderOver(elem)
          [] tag = "mfenced" ->
                O("d", <<>>,
                  <<FencedPr(elem)>>
                  \o [k \in 1..Len(children) |-> Slot("e", Convert(children[k]))])
          [] tag = "mtable" -> ConvertTable(elem)
          [] tag = "mspace" -> OmmlRun(<<"emsp">>)
          [] tag \in { "mpadded", "mstyle", "menclose" } -> group
          [] OTHER ->
                IF Strip[elem.text] # <<>> THEN OmmlRun(Strip[elem.text])
                ELSE IF Len(group.kids) > 0 THEN group
                ELSE NoOmml

(***************************************************************************)
(* MathML trees latex2mathml can hand to the translator.                   *)
(***************************************************************************)
Mi == El("mi", <<"x">>, <<>>)
MiBlank == El("mi", <<" ">>, <<>>)
MoOpen == El("mo", <<"[">>, <<>>)
MoClose == El("mo", <<"]">>, <<>>)
MoNull == El("mo", <<>>, <<>>)      \* the null delimiter of \left. and \right.
MLeaves == { Mi, MiBlank, MoOpen }

\* an mtable of one row whose cells hold the given elements, one each
MTable(cells) ==
    El("mtable", <<>>,
       << El("mtr", <<>>, [k \in 1..Len(cells) |-> El("mtd", <<>>, <<cells[k]>>)]) >>)

GroupTags == { "mrow", "mstyle", "mpadded", "menclose", "semantics" }
SlotTags ==
    { "mfrac", "msqrt", "mroot", "msup", "msub", "msubsup", "mover", "munder",
      "munderover", "mfenced" }

\* the child lists of up to three leaves
LeafSeqs == UNION { [1..n -> MLeaves] : n \in 0..3 }

\* every kind of element over leaves, and the matrix patterns of an mrow
MBase ==
    { El(t, <<>>, ks) : t \in GroupTags \cup SlotTags, ks \in LeafSeqs }
    \cup { El("mrow", <<>>, ks) :
              ks \in { <<MoOpen, MTable(<<Mi>>), MoClose>>, <<MoOpen, MTable(<<Mi>>)>>,
                       <<Mi, MoOpen, MTable(<<Mi, Mi>>), MoClose, Mi>>,
                       <<MTable(<<Mi>>), MoClose>>, <<Mi, MTable(<<Mi>>)>>,
                       <<MoNull, MTable(<<Mi>>), MoClose>>, <<MoOpen, MTable(<<Mi>>), MoNull>>,
                       <<MoNull, MTable(<<Mi>>)>>,
                       <<Mi, MTable(<<Mi>>), Mi, MoOpen, MTable(<<Mi>>), MoClose>>,
                       <<MoOpen, MTable(<<Mi>>), MoClose, MoOpen, MTable(<<Mi>>), MoClose>>,
                       <<MiBlank, MoOpen, MTable(<<Mi>>), Mi, MoClose>>,
                       <<MTable(<<Mi>>), MTable(<<Mi>>)>> } }
    \cup { MTable(<<>>), MTable(<<Mi, MiBlank>>), El("mtable", <<>>, <<>>),
           El("mspace", <<>>, <<>>), El("mtext", <<"a", "b">>, <<>>),
           El("mn", <<"2">>, <<>>), El("semantics", <<"x">>, <<Mi>>),
           El("munderover", <<>>, <<El("mo", <<"sum">>, <<>>), Mi, Mi>>),
           El("munderover", <<>>, <<El("mo", <<" ", "int">>, <<>>), Mi, MiBlank>>),
           El("munderover", <<>>, <<El("mrow", <<>>, <<El("mo", <<"prod">>, <<>>)>>), Mi, Mi>>),
           El("munderover", <<>>, <<El("mo", <<"sum", "x">>, <<>>), Mi, Mi>>),
           El("munderover", <<>>, <<El("mi", <<"l", "i", "m">>, <<>>), Mi, Mi>>),
           El("munder", <<>>, <<El("mo", <<"sum">>, <<>>), Mi>>),
           El("munder", <<>>, <<El("mi", <<"l", "i", "m">>, <<>>), Mi>>),
           El("mrow", <<>>, <<Mi, El("mfrac", <<>>, <<Mi>>), MoOpen,
                               El("munderover", <<>>, <<Mi, Mi>>), El("mn", <<"2">>, <<>>)>>),
           El("mrow", <<>>, <<El("msup", <<>>, <<>>), Mi, El("msub", <<>>, <<Mi>>),
                               El("msubsup", <<>>, <<Mi, MoOpen>>), MoClose>>),
           [El("mfenced", <<>>, <<Mi>>) EXCEPT !.open = <<>>, !.close = <<"]">>] }

\* the elements nested further
MPool ==
    { El("mrow", <<>>, <<Mi, MoOpen>>), El("mrow", <<>>, <<>>), El("mrow", <<>>, <<MiBlank>>),
      El("mstyle", <<>>, <<Mi>>), El("semantics", <<>>, <<Mi, Mi>>),
      El("msqrt", <<>>, <<El("mrow", <<>>, <<Mi, Mi>>)>>),
      El("mrow", <<>>, <<Mi, MoOpen, MTable(<<Mi>>), MoClose>>) }

NestTags == { "mrow", "mstyle", "semantics", "msqrt", "mfrac", "cell", "embedded" }

\* element a one level further down, under a parent of kind t
Nested(t, a, lead) ==
    IF t = "cell" THEN MTable(lead \o <<a>>)
    ELSE IF t = "embedded"
    THEN El("mrow", <<>>, lead \o <<a, MoOpen, MTable(<<a>>), MoClose, a>>)
    ELSE IF t = "mfrac" THEN El("mfrac", <<>>, <<Mi, a>>)
    ELSE El(t, <<>>, lead \o <<a>>)

RECURSIVE MNest(_)
MNest(d) ==
    IF d <= 1 THEN MPool
    ELSE MPool \cup { Nested(t, a, lead) :
                         t \in NestTags, a \in MNest(d - 1), lead \in { <<>>, <<Mi>> } }

MathTrees ==
    { El("math", <<>>, <<a>>) : a \in MBase \cup MNest(MathDepth) }
    \cup { El("math", <<>>, <<Mi, a>>) : a \in MPool }
    \cup { El("math", <<>>, <<>>),
           El("math", <<>>, <<Mi, El("msup", <<>>, <<Mi>>), MoOpen>>) }

(***************************************************************************)
(* math_renderer: latex_to_omml_para / latex_to_omml and their two stages. *)
(***************************************************************************)
IsPrefix(p, s) == Len(p) <= Len(s) /\ SubSeq(s, 1, Len(p)) = p

\* str.replace(old, new), old not empty
Replace[s \in Str, old \in Str, new \in Str] ==
    IF s = <<>> THEN <<>>
    ELSE IF IsPrefix(old, s) THEN new \o Replace[SubSeq(s, Len(old) + 1, Len(s)), old, new]
    ELSE <<Head(s)>> \o Replace[Tail(s), old, new]

\* s.replace(r"\X", r"\mathbb{X}")
Blackboard(s, X) ==
    Replace[s, <<"\\", X>>, <<"\\", "m", "a", "t", "h", "b", "b", "{", X, "}">>]

_clean_latex(latex_str) ==
    Blackboard(Blackboard(Blackboard(Blackboard(Blackboard(Strip[latex_str],
        "R"), "N"), "Z"), "Q"), "C")

\* the strings handed to the translator: empty, blank, well-formed, shorthand,
\* unbalanced, and a longer macro name (\Re) next to a shorthand
LatexInputs ==
    { <<>>, <<" ", "\t">>, <<"x">>, <<" ", "\\", "R", " ">>, <<"{", "x">>,
      <<"\\", "R", "e", " ", "\\", "Z">> }

\* an exception in flight
Raised == "raised"
IsRaised(x) == x.tag = Raised

\* no handler around the stage: its exception goes on to the caller
NoExcept(outcome, none) == outcome

\* try: return <outcome> / except Exception: return None
ExceptException(outcome, none) == IF IsRaised(outcome) THEN none ELSE outcome

NoCall == [latex |-> <<>>, para |-> FALSE, cleaned |-> <<>>, fault |-> "none"]

\* latex_to_omml_para(latex_str) or latex_to_omml(latex_str) is called
MathCall ==
    /\ mpc = "idle"
    /\ \E latex \in LatexInputs, para \in BOOLEAN :
          mathIn' = [NoCall EXCEPT !.latex = latex, !.para = para]
    /\ mathml' = NoMathml
    /\ omml' = NoOmml
    /\ mpc' = "latex_to_mathml"
    /\ UNCHANGED <<builderVars, inlineVars>>

\* latex_to_mathml(latex_str); latex2mathml gives a tree or raises
LatexToMathml ==
    /\ mpc = "latex_to_mathml"
    /\ \E converted \in MathTrees \cup { El(Raised, <<>>, <<>>) } :
          LET blank == mathIn.latex = <<>> \/ Strip[mathIn.latex] = <<>>
              r == IF blank THEN NoMathml ELSE ExceptException(converted, NoMathml)
          IN  /\ mathIn' = IF blank THEN mathIn
                           ELSE [mathIn EXCEPT
                                    !.cleaned = _clean_latex(mathIn.latex),
                                    !.fault = IF IsRaised(converted) THEN "latex2mathml"
                                              ELSE @]
              /\ mathml' = IF IsRaised(r) THEN NoMathml ELSE r
              /\ mpc' = IF IsRaised(r) THEN "raised"
                        ELSE IF r = NoMathml THEN "return"
                        ELSE "mathml_to_omml"
    /\ UNCHANGED <<omml, builderVars, inlineVars>>

\* _mathml_to_omml(mathml): etree.fromstring or the conversion may raise
MathmlToOmml ==
    /\ mpc = "mathml_to_omml"
    /\ \E fault \in { "none", "fromstring", "convert" } :
          LET outcome == IF fault = "none" THEN Convert(mathml) ELSE O(Raised, <<>>, <<>>)
              r == ExceptException(outcome, NoOmml)
          IN  /\ mathIn' = [mathIn EXCEPT !.fault = fault]
              /\ omml' = IF IsRaised(r) THEN NoOmml ELSE r
              /\ mpc' = IF IsRaised(r) THEN "raised" ELSE "return"
    /\ UNCHANGED <<mathml, builderVars, inlineVars>>

\* latex_to_omml returns; latex_to_omml_para wraps a tree in oMathPara
MathReturn ==
    /\ mpc = "return"
    /\ omml' = IF mathIn.para /\ omml # NoOmml THEN O("oMathPara", <<>>, <<omml>>)
               ELSE omml
    /\ mpc' = "returned"
    /\ UNCHANGED <<mathIn, mathml, builderVars, inlineVars>>

\* the caller took the result
MathDone ==
    /\ mpc = "returned"
    /\ mathIn' = NoCall
    /\ mathml' = NoMathml
    /\ omml' = NoOmml
    /\ mpc' = "idle"
    /\ UNCHANGED <<builderVars, inlineVars>>

(***************************************************************************)
(* docx_builder: _process_inline and the helpers it calls.                 *)
(* An inline token: type, content, attrs (dict), meta (dict), children     *)
(* (the alt text of an image, as text tokens).  What the formatter appends *)
(* is recorded run by run: kind "run" (paragraph.add_run), "hyperlink"     *)
(* (a w:hyperlink element), "omml" (a math element), "break" (a run        *)
(* holding a break), "picture" (a run holding a picture) and "caption"     *)
(* (the caption paragraph added to the document).                          *)
(***************************************************************************)
IChild(type, content) ==
    [type |-> type, content |-> content, attrs |-> EmptyDict, meta |-> EmptyDict,
     children |-> <<>>]

WithAttr(child, name, value) == [child EXCEPT !.attrs = DictPut(@, name, value)]

\* Python truthiness of an optional string: None and "" are false
Falsy(x) == x = Absent \/ x = <<>>

\* token.attrGet(name): the attribute or None
attrGet(child, name) == DictGet(child.attrs, name, Absent)

\* href = attrGet(name); if not href and attrs: href = attrs.get(name, "")
AttrOf(child, name) ==
    LET got == attrGet(child, name)
    IN  IF Falsy(got) /\ DOMAIN child.attrs # {}
        THEN DictGet(child.attrs, name, <<>>)
        ELSE got

Run(kind, tok, text) ==
    [kind |-> kind, tok |-> tok, text |-> text, bold |-> FALSE, italic |-> FALSE,
     strike |-> FALSE, font |-> "default", size |-> "default", url |-> Absent,
     color |-> "default"]

\* _apply_run_format
_apply_run_format(run, b, i, s) ==
    [run EXCEPT !.bold = b, !.italic = i, !.strike = s]

\* _add_hyperlink: the link element, or the coloured run when building it raises
_add_hyperlink(tok, url, text, b, i, fails) ==
    IF fails
    THEN [Run("run", tok, text) EXCEPT !.color = "link", !.bold = b, !.italic = i]
    ELSE [Run("hyperlink", tok, text) EXCEPT
             !.url = url, !.color = "link", !.font = "body", !.bold = b, !.italic = i]

\* the branch of a formatting marker: the flag after the marker ct
FlagKept(ct, flag, open, close) == IF ct = open THEN TRUE ELSE flag

FlagAfter(ct, flag, open, close) ==
    IF ct = open THEN TRUE ELSE IF ct = close THEN FALSE ELSE flag

\* link_href = href or ""
LinkHref(child) ==
    LET href == AttrOf(child, "href") IN IF Falsy(href) THEN <<>> ELSE href

\* if link_href:
InLink(href) == ~Falsy(href)

\* the text branch
TextRun(tok, child, href, b, i, s, fails) ==
    IF InLink(href) THEN _add_hyperlink(tok, href, child.content, b, i, fails)
    ELSE _apply_run_format(Run("run", tok, child.content), b, i, s)

\* the code_inline branch
CodeRun(tok, child, b, i) ==
    [Run("run", tok, child.content) EXCEPT
        !.font = "code", !.size = "code", !.bold = b, !.italic = i]

Dollar(latex_str) == <<"$">> \o latex_str \o <<"$">>
Bracket(latex_str) == <<"[">> \o latex_str \o <<"]">>

\* the run of _handle_math_block when latex_to_omml_para gives None
MathBlockFallback(tok, latex_str) ==
    [Run("run", tok, Bracket(latex_str)) EXCEPT
        !.font = "code", !.size = "code", !.italic = TRUE]

\* the math_inline branch; latex_to_omml gives an element (translated) or None
MathInlineRun(tok, child, translated) ==
    LET latex_str == Strip[child.content]
    IN  IF translated THEN Run("omml", tok, latex_str)
        ELSE [Run("run", tok, Dollar(latex_str)) EXCEPT
                 !.font = "code", !.size = "code", !.italic = TRUE]

\* the math_inline_double branch
MathInlineDoubleRun(tok, child, translated) ==
    LET latex_str == Strip[child.content]
    IN  IF translated THEN Run("omml", tok, latex_str)
        ELSE [Run("run", tok, Dollar(Dollar(latex_str))) EXCEPT
                 !.font = "code", !.italic = TRUE]

\* alt = "".join(c.content for c in token.children if c.type == "text")
RECURSIVE JoinText(_)
JoinText(kids) ==
    IF kids = <<>> THEN <<>>
    ELSE (IF Head(kids).type = "text" THEN Head(kids).content ELSE <<>>)
         \o JoinText(Tail(kids))

ImageAlt(token) ==
    IF token.children # <<>> THEN JoinText(token.children)
    ELSE LET alt == attrGet(token, "alt") IN IF Falsy(alt) THEN <<>> ELSE alt

\* what the disk and add_picture can answer for an image with a source
ImageOutcomes == { "not_found", "picture", "add_picture_raises" }

ImageLabel(prefix, s) == <<"[">> \o prefix \o s \o <<"]">>

\* _handle_image
_handle_image(tok, token, outcome) ==
    LET src == AttrOf(token, "src")
        alt == ImageAlt(token)
        label(text) == [Run("run", tok, text) EXCEPT !.italic = TRUE]
    IN  IF Falsy(src) THEN << label(ImageLabel(<<"Image: ">>, alt)) >>
        ELSE IF outcome = "not_found"
        THEN << [label(ImageLabel(<<"Image not found: ">>, src)) EXCEPT !.color = "red"] >>
        ELSE IF outcome = "add_picture_raises"
        THEN << Run("run", tok, <<>>),
                label(ImageLabel(<<"Image: ">>, IF alt # <<>> THEN alt ELSE src)) >>
        ELSE << Run("picture", tok, <<>>) >>
             \o (IF alt # <<>>
                 THEN << [Run("caption", tok, alt) EXCEPT
                            !.italic = TRUE, !.size = "caption", !.color = "grey"] >>
                 ELSE <<>>)

\* content = child.content.strip().lower(); content in ("<br>", "<br/>", "<br />")
IsBreakTag(content) ==
    Lower[Strip[content]] \in { <<"<", "b", "r", ">">>, <<"<", "b", "r", "/", ">">>,
                                <<"<", "b", "r", " ", "/", ">">> }

\* ref_id = child.meta.get("id", "?") if child.meta else "?"; int(ref_id) raises
\* ValueError on "?"
RefIdRaises(child) == "id" \notin DOMAIN child.meta

FootnoteRefRun(tok, child) ==
    [Run("run", tok, <<"[">> \o StrOfInt[child.meta["id"] + 1] \o <<"]">>) EXCEPT
        !.size = "footnote", !.color = "link"]

FormatTypes == { "strong_open", "strong_close", "em_open", "em_close", "s_open", "s_close" }
KnownInline ==
    FormatTypes \cup
    { "link_open", "link_close", "text", "code_inline", "math_inline",
      "math_inline_double", "image", "softbreak", "hardbreak", "html_inline",
      "footnote_ref" }

(***************************************************************************)
(* The inline children handed to the formatter.                            *)
(***************************************************************************)
IText == IChild("text", <<"t">>)
IMarkers == { IChild(t, <<>>) : t \in FormatTypes }
ILinkOpens ==
    { IChild("link_open", <<>>),
      WithAttr(IChild("link_open", <<>>), "title", <<"n">>),
      WithAttr(IChild("link_open", <<>>), "href", <<>>),
      WithAttr(IChild("link_open", <<>>), "href", <<"a">>),
      WithAttr(IChild("link_open", <<>>), "href", <<"b">>) }
ILinkClose == IChild("link_close", <<>>)
IImages ==
    { IChild("image", <<>>),
      WithAttr(IChild("image", <<>>), "src", <<"p">>),
      [WithAttr(IChild("image", <<>>), "src", <<"p">>) EXCEPT !.children = <<IText>>] }
IFootnoteRefs ==
    { IChild("footnote_ref", <<>>),
      [IChild("footnote_ref", <<>>) EXCEPT !.meta = DictPut(EmptyDict, "id", 0)] }
IOthers ==
    { IChild("code_inline", <<"c">>),
      IChild("math_inline", <<" ", "x">>), IChild("math_inline", <<" ">>),
      IChild("math_inline_double", <<"x", " ">>),
      IChild("softbreak", <<>>), IChild("hardbreak", <<>>),
      IChild("html_inline", <<"<", "B", "R", ">", " ">>),
      IChild("html_inline", <<"<", "i", ">">>),
      IChild("footnote_anchor", <<>>) }

InlineAlphabet ==
    IMarkers \cup ILinkOpens \cup IImages \cup IFootnoteRefs \cup IOthers
    \cup { IText, ILinkClose }

SeqsUpTo(S, n) == UNION { [1..k -> S] : k \in 0..n }

\* marker sequences of any shape, link sequences of any shape, and every short mix
InlineInputs ==
    SeqsUpTo(IMarkers \cup { IText }, MaxInline)
    \cup SeqsUpTo(ILinkOpens \cup { ILinkClose, IText, IChild("strong_open", <<>>) }, MaxInline)
    \cup SeqsUpTo(InlineAlphabet, MaxMixed)

(***************************************************************************)
(* _process_inline, one action per branch of its loop.                     *)
(***************************************************************************)
Child == pi_children[pi_idx + 1]

AtChild(types) == ipc = "loop" /\ pi_idx < Len(pi_children) /\ Child.type \in types

\* the branch appends rs and goes on to the next child
Emit(rs) ==
    /\ runs' = runs \o rs
    /\ pi_idx' = pi_idx + 1
    /\ UNCHANGED <<pi_children, bold, italic, strikethrough, link_href, ipc>>

PI_Call ==
    /\ ipc = "idle"
    /\ \E cs \in InlineInputs :
          /\ pi_children' = cs
          /\ ipc' = IF cs = <<>> THEN "returned" ELSE "loop"
    /\ bold' = FALSE
    /\ italic' = FALSE
    /\ strikethrough' = FALSE
    /\ link_href' = Absent
    /\ pi_idx' = 0
    /\ runs' = <<>>
    /\ UNCHANGED <<builderVars, mathVars>>

PI_Format ==
    /\ AtChild(FormatTypes)
    /\ bold' = FlagAfter(Child.type, bold, "strong_open", "strong_close")
    /\ italic' = FlagAfter(Child.type, italic, "em_open", "em_close")
    /\ strikethrough' = FlagAfter(Child.type, strikethrough, "s_open", "s_close")
    /\ pi_idx' = pi_idx + 1
    /\ UNCHANGED <<pi_children, link_href, runs, ipc, builderVars, mathVars>>

PI_LinkOpen ==
    /\ AtChild({ "link_open" })
    /\ link_href' = LinkHref(Child)
    /\ pi_idx' = pi_idx + 1
    /\ UNCHANGED <<pi_children, bold, italic, strikethrough, runs, ipc, builderVars, mathVars>>

PI_LinkClose ==
    /\ AtChild({ "link_close" })
    /\ link_href' = Absent
    /\ pi_idx' = pi_idx + 1
    /\ UNCHANGED <<pi_children, bold, italic, strikethrough, runs, ipc, builderVars, mathVars>>

PI_Text ==
    /\ AtChild({ "text" })
    /\ \E fails \in (IF InLink(link_href) THEN BOOLEAN ELSE { FALSE }) :
          Emit(<< TextRun(pi_idx + 1, Child, link_href, bold, italic, strikethrough, fails) >>)
    /\ UNCHANGED <<builderVars, mathVars>>

PI_CodeInline ==
    /\ AtChild({ "code_inline" })
    /\ Emit(<< CodeRun(pi_idx + 1, Child, bold, italic) >>)
    /\ UNCHANGED <<builderVars, mathVars>>

PI_MathInline ==
    /\ AtChild({ "math_inline" })
    /\ \E translated \in (IF Strip[Child.content] = <<>> THEN { FALSE } ELSE BOOLEAN) :
          Emit(<< MathInlineRun(pi_idx + 1, Child, translated) >>)
    /\ UNCHANGED <<builderVars, mathVars>>

PI_MathInlineDouble ==
    /\ AtChild({ "math_inline_double" })
    /\ \E translated \in (IF Strip[Child.content] = <<>> THEN { FALSE } ELSE BOOLEAN) :
          Emit(<< MathInlineDoubleRun(pi_idx + 1, Child, translated) >>)
    /\ UNCHANGED <<builderVars, mathVars>>

PI_Image ==
    /\ AtChild({ "image" })
    /\ \E outcome \in ImageOutcomes : Emit(_handle_image(pi_idx + 1, Child, outcome))
    /\ UNCHANGED <<builderVars, mathVars>>

PI_Softbreak ==
    /\ AtChild({ "softbreak" })
    /\ Emit(<< Run("run", pi_idx + 1, <<"\n">>) >>)
    /\ UNCHANGED <<builderVars, mathVars>>

PI_Hardbreak ==
    /\ AtChild({ "hardbreak" })
    /\ Emit(<< Run("break", pi_idx + 1, <<>>) >>)
    /\ UNCHANGED <<builderVars, mathVars>>

PI_HtmlInline ==
    /\ AtChild({ "html_inline" })
    /\ Emit(IF IsBreakTag(Child.content) THEN << Run("break", pi_idx + 1, <<>>) >> ELSE <<>>)
    /\ UNCHANGED <<builderVars, mathVars>>

PI_FootnoteRef ==
    /\ AtChild({ "footnote_ref" })
    /\ IF RefIdRaises(Child)
       THEN /\ ipc' = "raised"
            /\ UNCHANGED <<pi_children, pi_idx, bold, italic, strikethrough, link_href, runs>>
       ELSE Emit(<< FootnoteRefRun(pi_idx + 1, Child) >>)
    /\ UNCHANGED <<builderVars, mathVars>>

\* the final else: an unknown inline token is skipped
PI_Unknown ==
    /\ ipc = "loop" /\ pi_idx < Len(pi_children) /\ Child.type \notin KnownInline
    /\ Emit(<<>>)
    /\ UNCHANGED <<builderVars, mathVars>>

\* the loop condition fails: the formatter returns
PI_Return ==
    /\ ipc = "loop" /\ pi_idx >= Len(pi_children)
    /\ ipc' = "returned"
    /\ UNCHANGED <<pi_children, pi_idx, bold, italic, strikethrough, link_href, runs,
                   builderVars, mathVars>>

InlineIdle ==
    /\ pi_children = <<>>
    /\ pi_idx = 0
    /\ bold = FALSE
    /\ italic = FALSE
    /\ strikethrough = FALSE
    /\ link_href = Absent
    /\ runs = <<>>
    /\ ipc = "idle"

(***************************************************************************)
(* Specifications of the builder.                                          *)
(***************************************************************************)
BuilderIdle(files) ==
    /\ tokens = <<>>
    /\ pc = "idle"
    /\ stack = <<>>
    /\ blockquote_depth = 0
    /\ list_depth = 0
    /\ ordered_counters = EmptyDict
    /\ out = <<>>
    /\ visits = <<>>
    /\ collects = <<>>
    /\ lastRet = NoRet
    /\ exits = <<>>
    /\ entry = [blockquote_depth |-> 0, list_depth |-> 0, ordered_counters |-> EmptyDict]
    /\ handoffs = <<>>
    /\ md_left = files
    /\ results = <<>>
    /\ md_files = [k \in 1..files |-> File(<<"a", ".", "m", "d">>, "text")]
    /\ input_path = NoInput
    /\ exit_code = 0

MathIdle ==
    /\ mathIn = NoCall
    /\ mathml = NoMathml
    /\ omml = NoOmml
    /\ mpc = "idle"

BuildStep ==
    \/ PT_Heading \/ PT_Paragraph \/ PT_CodeBlock \/ PT_MathBlock \/ PT_List
    \/ PT_Blockquote \/ PT_Table \/ PT_Hr \/ PT_Skip \/ PT_Footnote \/ PT_Return
    \/ HL_ListStep \/ HL_Exit \/ HL_ItemPara \/ HL_ItemList \/ HL_ItemCode
    \/ HL_ItemMath \/ HL_ItemQuote \/ HL_ItemSkip \/ HL_ItemEnd
    \/ HB_Collect \/ HB_Call \/ HB_Return
    \/ HT_Step \/ HT_Exit \/ HF_Step \/ HF_Exit

\* one file: convert_file on any document
Init == BuilderIdle(1) /\ MathIdle /\ InlineIdle /\ cd_pc = "off" /\ main_pc = "off"
Next == ConvertFile(Docs) \/ BuildStep
Spec == Init /\ [][Next]_vars

\* the builder is sequential code: a step of the traversal that can be taken is taken
FairSpec == Spec /\ WF_vars(BuildStep)

\* convert_directory on a directory of up to MaxFiles markdown files
InitBatch == BuilderIdle(0) /\ MathIdle /\ InlineIdle /\ cd_pc = "glob" /\ main_pc = "off"
NextBatch ==
    \/ ConvertDirectory \/ ConvertFile(BatchDocs) \/ ConvertFileRaises \/ BuildStep
    \/ RecordResult \/ ConvertDirectoryReturn
SpecBatch == InitBatch /\ [][NextBatch]_vars

\* the command line: main on any input path
InitCli == BuilderIdle(0) /\ MathIdle /\ InlineIdle /\ cd_pc = "off" /\ main_pc = "start"
NextCli ==
    \/ Main_File \/ Main_Directory \/ Main_Invalid
    \/ ConvertDirectory \/ ConvertFile(BatchDocs) \/ ConvertFileRaises \/ BuildStep
    \/ RecordResult \/ ConvertDirectoryReturn
    \/ Main_FileReturn \/ Main_DirectoryReturn
SpecCli == InitCli /\ [][NextCli]_vars

\* the math translator, called on its own
InitMath == BuilderIdle(0) /\ MathIdle /\ InlineIdle /\ cd_pc = "off" /\ main_pc = "off"
NextMath == MathCall \/ LatexToMathml \/ MathmlToOmml \/ MathReturn \/ MathDone
SpecMath == InitMath /\ [][NextMath]_vars

\* the inline formatter, called on the children of one inline token
InitInline == BuilderIdle(0) /\ MathIdle /\ InlineIdle /\ cd_pc = "off" /\ main_pc = "off"
NextInline ==
    \/ PI_Call \/ PI_Format \/ PI_LinkOpen \/ PI_LinkClose \/ PI_Text \/ PI_CodeInline
    \/ PI_MathInline \/ PI_MathInlineDouble \/ PI_Image \/ PI_Softbreak \/ PI_Hardbreak
    \/ PI_HtmlInline \/ PI_FootnoteRef \/ PI_Unknown \/ PI_Return
SpecInline == InitInline /\ [][NextInline]_vars

(***************************************************************************)
(* The structure of a token sequence, read off the sequence itself (these  *)
(* operators model no code: the properties below compare the builder's     *)
(* behaviour with them).                                                   *)
(***************************************************************************)
OpenTypes ==
    { "heading_open", "paragraph_open", "bullet_list_open", "ordered_list_open",
      "list_item_open", "blockquote_open", "table_open", "thead_open", "tbody_open",
      "tr_open", "th_open", "td_open", "footnote_block_open", "footnote_open" }
CloseTypes ==
    { "heading_close", "paragraph_close", "bullet_list_close", "ordered_list_close",
      "list_item_close", "blockquote_close", "table_close", "thead_close",
      "tbody_close", "tr_close", "th_close", "td_close", "footnote_block_close",
      "footnote_close" }

\* the types of the tokens a frame's list refers to
TypesOf(toks) == [k \in 1..Len(toks) |-> tokens[toks[k]].type]
DocTypes == [k \in 1..Len(tokens) |-> tokens[k].type]

\* the number of containers open just before position k
Level(types, k) ==
    Cardinality({ j \in 1..(k - 1) : types[j] \in OpenTypes })
    - Cardinality({ j \in 1..(k - 1) : types[j] \in CloseTypes })

\* the position of the close matching the open at position k
CloseOf(types, k) ==
    CHOOSE j \in (k + 1)..Len(types) :
        /\ types[j] \in CloseTypes
        /\ Level(types, j) = Level(types, k) + 1
        /\ \A m \in (k + 1)..(j - 1) :
              ~(types[m] \in CloseTypes /\ Level(types, m) = Level(types, k) + 1)

\* the position just past the construct that starts at position k
ConstructEnd(types, k) ==
    IF types[k] \in OpenTypes THEN CloseOf(types, k) + 1 ELSE k + 1

\* the open of the innermost container around position k (0 at top level)
Parent(types, k) ==
    LET lvl == IF types[k] \in CloseTypes THEN Level(types, k) - 1 ELSE Level(types, k)
        cands == { j \in 1..(k - 1) : types[j] \in OpenTypes /\ Level(types, j) = lvl - 1 }
    IN  IF cands = {} THEN 0 ELSE Max(cands)

\* the blockquotes around token k of the document, the token's own pair excluded:
\* those opened and not closed before k, less the one a blockquote_close at k closes
QuotesAround(types, k) ==
    Cardinality({ j \in 1..(k - 1) : types[j] = "blockquote_open" })
    - Cardinality({ j \in 1..(k - 1) : types[j] = "blockquote_close" })
    - (IF types[k] = "blockquote_close" THEN 1 ELSE 0)

\* the 1-based position of the list item opened at k among the items of its list:
\* the items opened at k's level from the list's open up to k
ItemNo(k) ==
    LET types == DocTypes
        list == Parent(types, k)
    IN  Cardinality({ j \in (list + 1)..k :
                         /\ types[j] = "list_item_open"
                         /\ Level(types, j) = Level(types, k) })

\* the list (its open token) whose item holds the paragraph opened at token p
ListOfRow(p) == Parent(DocTypes, Parent(DocTypes, p))

Terminated == pc \in { "done", "failed" }

(***************************************************************************)
(* C1: on every well-nested token sequence _process_tokens terminates:     *)
(* every step of a loop of _process_tokens, _handle_list,                  *)
(* _handle_blockquote, _handle_table and _handle_footnote_block moves the  *)
(* cursor of its frame forward (a call starts one past the caller's        *)
(* cursor, a return hands back a cursor beyond the one given), and the     *)
(* traversal ends.                                                         *)
(***************************************************************************)
CursorAdvances ==
    (pc = "running" /\ pc' = "running" /\ stack' # stack) =>
        \/ /\ Len(stack') = Len(stack)
           /\ stack'[Len(stack)].i > F.i
        \/ /\ Len(stack') = Len(stack) + 1
           /\ \/ stack'[Len(stack')].fn = "process"
              \/ stack'[Len(stack')].i = F.i + 1
        \/ /\ Len(stack') = Len(stack) - 1
           /\ \/ F.fn = "process"
              \/ stack'[Len(stack')].i > stack[Len(stack')].i

C1_Terminates == [][CursorAdvances]_vars /\ (pc = "running" ~> Terminated)

\* a build that returned after walking lists, blockquotes, a table or footnotes
C1_Witness ==
    /\ pc = "done"
    /\ \E j, k \in DOMAIN tokens :
          /\ tokens[j].type = "blockquote_open"
          /\ tokens[k].type = "ordered_list_open"
          /\ j < k
          /\ QuotesAround(DocTypes, k) = 1

(***************************************************************************)
(* C2: during one build no token is consumed twice and, when the build     *)
(* returns, every token was consumed exactly once: a handler returns a     *)
(* cursor beyond the one it was given, just past the construct it handled; *)
(* no token is passed by two dispatch cursors; a token is looked at again  *)
(* only by the blockquote handlers around it, which collect it once each.  *)
(***************************************************************************)
C2_ConsumedOnce ==
    LET types == DocTypes
    IN  /\ \A t \in DOMAIN visits : visits[t] <= 1
        /\ \A t \in DOMAIN collects : collects[t] <= QuotesAround(types, t)
        /\ pc = "done" =>
              \A t \in DOMAIN tokens :
                  visits[t] = 1 /\ collects[t] = QuotesAround(types, t)
        /\ lastRet # NoRet =>
              /\ lastRet.to > lastRet.from
              /\ lastRet.to = ConstructEnd(TypesOf(lastRet.toks), lastRet.from)

\* a nested blockquote returned inside a list item: its tokens were collected twice
C2_Witness ==
    /\ pc = "running"
    /\ lastRet.fn = "blockquote"
    /\ \E t \in DOMAIN tokens : collects[t] = 2 /\ visits[t] = 1
    /\ \E t \in DOMAIN tokens : tokens[t].type = "list_item_open" /\ visits[t] = 1

(***************************************************************************)
(* C3: an ordered list's counter is set to zero when the list opens, so    *)
(* the first item of an ordered list is numbered 1 whatever an earlier     *)
(* sibling list counted; while the builder runs, ordered_counters has an   *)
(* entry exactly for the depths of the ordered lists that are open, so     *)
(* none is left between the close of a list and the next open.             *)
(***************************************************************************)
OpenOrderedDepths ==
    { stack[j].depth : j \in { x \in 1..Len(stack) :
                                  stack[x].fn = "list" /\ stack[x].ordered } }

Rows == { out[k] : k \in { x \in 1..Len(out) : out[x].kind = "list_row" } }

C3_CounterReset ==
    /\ pc = "running" => DOMAIN ordered_counters = OpenOrderedDepths
    /\ (Running("list", "list") /\ F.ordered /\ F.i = F.start + 1) =>
          ordered_counters[F.depth] = 0
    /\ \A b \in Rows :
          (b.ordered /\ ItemNo(Parent(DocTypes, b.tok)) = 1) => b.num = 1

\* an ordered list that counted to 2 closed, and its sibling's first row is out
C3_Witness ==
    /\ pc = "running"
    /\ \E a \in Rows, b \in Rows :
          /\ a.ordered /\ b.ordered
          /\ a.num = 2 /\ b.num = 1
          /\ ListOfRow(a.tok) < ListOfRow(b.tok)
          /\ CloseOf(DocTypes, ListOfRow(a.tok)) < ListOfRow(b.tok)
          /\ Parent(DocTypes, ListOfRow(a.tok)) = Parent(DocTypes, ListOfRow(b.tok))

(***************************************************************************)
(* C4: the number prefixed to the paragraph of an ordered list's item is   *)
(* the 1-based position of the item in its own list, whatever lists are    *)
(* nested in the items before it; a list that returns leaves the counters  *)
(* of the other depths as they were.                                       *)
(***************************************************************************)
RowsNumbered ==
    \A b \in Rows : b.ordered => b.num = ItemNo(Parent(DocTypes, b.tok))

ListReturns == pc = "running" /\ stack # <<>> /\ F.fn = "list" /\ Len(stack') < Len(stack)

OuterCountersKept ==
    ListReturns =>
        \A d \in DOMAIN ordered_counters :
            d # F.depth => (d \in DOMAIN ordered_counters'
                            /\ ordered_counters'[d] = ordered_counters[d])

C4_NestedIndependent == []RowsNumbered /\ [][OuterCountersKept]_vars

\* the second item of an ordered list is numbered after an ordered list nested in the
\* first item was processed
C4_Witness ==
    \E a \in Rows, b \in Rows :
        /\ a.ordered /\ b.ordered
        /\ b.num = 2
        /\ ItemNo(Parent(DocTypes, b.tok)) = 2
        /\ Parent(DocTypes, Parent(DocTypes, ListOfRow(a.tok))) = ListOfRow(b.tok)

(***************************************************************************)
(* C5: whenever _handle_blockquote is left, by returning or by an error of *)
(* the processing of its inner tokens, _blockquote_depth has the value it  *)
(* had before the call.                                                    *)
(***************************************************************************)
C5_DepthRestored == \A k \in DOMAIN exits : exits[k].post = exits[k].pre

(***************************************************************************)
(* C6: every conversion starts with _blockquote_depth = 0, _list_depth = 0 *)
(* and no ordered counter, whatever the builder of the previous document   *)
(* was left with.                                                          *)
(***************************************************************************)
ZeroState == [blockquote_depth |-> 0, list_depth |-> 0, ordered_counters |-> EmptyDict]

BuildStarts ==
    /\ pc = "running"
    /\ Len(stack) = 1
    /\ F.i = 1
    /\ \A t \in DOMAIN visits : visits[t] = 0

C6_FreshTraversalState ==
    /\ pc = "running" => entry = ZeroState
    /\ BuildStarts => /\ blockquote_depth = 0
                      /\ list_depth = 0
                      /\ ordered_counters = EmptyDict

\* a build starts after a conversion that failed inside a list in a blockquote
C6_Witness ==
    /\ BuildStarts
    /\ results # <<>>
    /\ LET last == results[Len(results)]
       IN  /\ ~last.ok
           /\ last.left.blockquote_depth > 0
           /\ last.left.list_depth > 0
           /\ last.left.ordered_counters # EmptyDict

(***************************************************************************)
(* C9: the table emitted for a table of the document has as many columns   *)
(* as its widest row has cells and as many rows as the document's table    *)
(* has rows; row r has cells 1..w filled, w being the width of the r-th    *)
(* row, the others are left empty; a document of tables only never fails.  *)
(***************************************************************************)
\* the rows (tr_open positions) of the table opened at t, and the cells of a row
TableRowsOf(t) ==
    { r \in (t + 1)..CloseOf(DocTypes, t) : DocTypes[r] = "tr_open" }
RowWidth(r) ==
    Cardinality({ c \in (r + 1)..CloseOf(DocTypes, r) :
                     DocTypes[c] \in { "th_open", "td_open" } })
NthRow(t, n) ==
    CHOOSE r \in TableRowsOf(t) : Cardinality({ x \in TableRowsOf(t) : x <= r }) = n

TableBlocks == { out[k] : k \in { x \in 1..Len(out) : out[x].kind = "table" } }

C9_RaggedRows ==
    /\ \A b \in TableBlocks :
          /\ b.rows = Cardinality(TableRowsOf(b.tok))
          /\ b.cols = Max({ RowWidth(r) : r \in TableRowsOf(b.tok) })
          /\ b.filled = { rc \in (1..b.rows) \X (1..b.cols) :
                             rc[2] <= RowWidth(NthRow(b.tok, rc[1])) }
    /\ (lastRet.fn = "table" /\ Len(stack) = 1) =>
          /\ pc # "failed"
          /\ (\E r \in TableRowsOf(lastRet.toks[lastRet.from]) : RowWidth(r) > 0)
                => (\E b \in TableBlocks : b.tok = lastRet.toks[lastRet.from])

\* rows of widths 3, 2, 3 gave a table of 3 columns whose cell (2, 3) is empty
C9_Witness ==
    /\ pc = "done"
    /\ \E b \in TableBlocks :
          /\ b.rows = 3 /\ b.cols = 3
          /\ RowWidth(NthRow(b.tok, 2)) = 2
          /\ <<2, 3>> \notin b.filled
          /\ { <<1, 3>>, <<2, 2>>, <<3, 3>> } \subseteq b.filled

(***************************************************************************)
(* C10: every fence or code_block token the builder handles is handed to   *)
(* exactly one collaborator: the diagram renderer if the first word of its *)
(* info string, lowercased, is matrix, chart, graph or workflow (an image  *)
(* or an error marker comes out, no code block), the code renderer         *)
(* otherwise (no image comes out).                                         *)
(***************************************************************************)
FirstWord(info) == IF Split[info] = <<>> THEN <<>> ELSE Split[info][1]

DiagramWords ==
    { <<"m", "a", "t", "r", "i", "x">>, <<"c", "h", "a", "r", "t">>,
      <<"g", "r", "a", "p", "h">>, <<"w", "o", "r", "k", "f", "l", "o", "w">> }

KindsFor(t) == { out[k].kind : k \in { x \in 1..Len(out) : out[x].tok = t } }

C10_OneCollaborator ==
    \A k \in DOMAIN handoffs :
        LET h == handoffs[k]
            diagram == Lower[FirstWord(tokens[h.tok].info)] \in DiagramWords
        IN  /\ h.to = IF diagram THEN "diagram" ELSE "code"
            /\ diagram => /\ KindsFor(h.tok) # {}
                          /\ KindsFor(h.tok) \subseteq
                                { "image", "caption", "diagram_error", "diagram_failed" }
            /\ ~diagram => KindsFor(h.tok) \subseteq { "code_label", "code" }

(***************************************************************************)
(* C7: in every tree the math translator returns, no oMath node has an     *)
(* oMath node as a direct child: a translated group attached to a group is *)
(* spliced in, child by child.                                             *)
(***************************************************************************)
RECURSIVE NoGroupInGroup(_)
NoGroupInGroup(node) ==
    \A k \in 1..Len(node.kids) :
        /\ ~(node.tag = "oMath" /\ node.kids[k].tag = "oMath")
        /\ NoGroupInGroup(node.kids[k])

C7_Flattened == NoGroupInGroup(omml)

\* returned: the translation of a group that held a group of two children
C7_Witness ==
    /\ mpc = "returned"
    /\ omml.tag = "oMath"
    /\ Len(omml.kids) >= 3
    /\ \E k \in 1..Len(mathml.kids) :
          /\ mathml.kids[k].tag \in GroupTags
          /\ \E j \in 1..Len(mathml.kids[k].kids) :
                /\ mathml.kids[k].kids[j].tag \in GroupTags
                /\ Len(mathml.kids[k].kids[j].kids) >= 2

(***************************************************************************)
(* C8: latex_to_omml and latex_to_omml_para never raise: they return a     *)
(* tree or None, None for an empty or blank string and None whenever the   *)
(* LaTeX parser or the MathML conversion failed.                           *)
(***************************************************************************)
C8_NeverRaises ==
    /\ mpc # "raised"
    /\ mpc = "returned" =>
          /\ omml = NoOmml \/ omml.tag = (IF mathIn.para THEN "oMathPara" ELSE "oMath")
          /\ Strip[mathIn.latex] = <<>> => omml = NoOmml
          /\ mathIn.fault # "none" => omml = NoOmml

\* returned None for unbalanced braces: the parser raised inside latex_to_omml_para
C8_Witness ==
    /\ mpc = "returned"
    /\ mathIn.latex = <<"{", "x">>
    /\ mathIn.para
    /\ mathIn.fault = "latex2mathml"
    /\ omml = NoOmml

(***************************************************************************)
(* C11: convert_directory attempts every file it found, in sorted order:   *)
(* the k-th entry of results is for the k-th path in sorted order, an      *)
(* entry exists for a file whose conversion raised (ok = FALSE and the     *)
(* error recorded) and the loop goes on after it, so that the list         *)
(* returned has one entry per file found, and the success and failure      *)
(* counts add up to the number of files.                                   *)
(***************************************************************************)
\* the paths of a directory in the order of Python's string comparison
PathOrder ==
    << <<"B", ".", "m", "d">>, <<"a", ".", "m", "d">>,
       <<"b", ".", "m", "d">>, <<"c", ".", "m", "d">> >>
PathRank(path) == CHOOSE k \in 1..Len(PathOrder) : PathOrder[k] = path

Succeeded == { k \in 1..Len(results) : results[k].ok }
Failed == { k \in 1..Len(results) : ~results[k].ok }

C11_OneEntryPerFile ==
    cd_pc \in { "loop", "returned" } =>
      /\ \A j, k \in 1..Len(md_files) :
            j < k => PathRank(md_files[j].path) < PathRank(md_files[k].path)
      /\ Len(results) <= Len(md_files)
      /\ \A k \in 1..Len(results) :
            /\ results[k].input = md_files[k].path
            /\ results[k].ok <=> results[k].error = "None"
            /\ md_files[k].state # "text" => ~results[k].ok
      /\ cd_pc = "returned" =>
            /\ Len(results) = Len(md_files)
            /\ Cardinality(Succeeded) + Cardinality(Failed) = Len(md_files)

\* a directory whose first file fails inside the build and whose last file converts
C11_Witness ==
    /\ cd_pc = "returned"
    /\ Len(md_files) = MaxFiles
    /\ results[1].error = "IndexError"
    /\ results[Len(results)].ok

(***************************************************************************)
(* C12: main exits with a non-zero code when the input path is neither a   *)
(* file nor a directory, when it is a file without a .md suffix, when the  *)
(* single-file conversion raised, and when the directory holds no markdown *)
(* file; for a file without a .md suffix neither convert_file nor          *)
(* convert_directory was entered.                                          *)
(***************************************************************************)
MdEndings ==
    { <<".", "m", "d">>, <<".", "M", "D">>, <<".", "M", "d">>, <<".", "m", "D">> }
EndsInMd(path) ==
    /\ Len(path) >= 3
    /\ SubSeq(path, Len(path) - 2, Len(path)) \in MdEndings

CoreNotEntered ==
    /\ pc = "idle"
    /\ cd_pc = "off"
    /\ tokens = <<>>
    /\ md_left = 0

C12_ExitCodes ==
    /\ (input_path.kind = "file" /\ ~EndsInMd(input_path.path)) =>
          /\ main_pc = "exit"
          /\ exit_code # 0
          /\ CoreNotEntered
    /\ main_pc = "exit" =>
          /\ input_path.kind = "other" => exit_code # 0
          /\ (input_path.kind = "file" /\ pc = "failed") => exit_code # 0
          /\ (input_path.kind = "dir" /\ md_files = <<>>) => exit_code # 0

\* main has exited after the build of the one file it was given raised
C12_Witness ==
    /\ main_pc = "exit"
    /\ input_path.kind = "file"
    /\ pc = "failed"
    /\ out # <<>>
    /\ exit_code = 1

(***************************************************************************)
(* C13: a heading, a table or a horizontal rule that stands directly in a  *)
(* list item (between a list_item_open and its list_item_close) has        *)
(* produced its output block when the build is done, as it does at the top *)
(* level.                                                                  *)
(***************************************************************************)
BlockKindOf(type) ==
    CASE type = "heading_open" -> "heading"
      [] type = "hr" -> "hr"
      [] type = "table_open" -> "table"

\* the table opened at k has a cell
HasCells(types, k) ==
    \E j \in (k + 1)..(CloseOf(types, k) - 1) : types[j] \in { "th_open", "td_open" }

DirectlyInItem(types, k) ==
    LET p == Parent(types, k)
    IN  p # 0 /\ types[p] = "list_item_open"

Produced(k, kind) == \E n \in DOMAIN out : out[n].tok = k /\ out[n].kind = kind

C13_ItemDispatch ==
    pc = "done" =>
      LET types == DocTypes
      IN  \A k \in DOMAIN tokens :
            /\ types[k] \in { "heading_open", "hr", "table_open" }
            /\ types[k] = "table_open" => HasCells(types, k)
            /\ DirectlyInItem(types, k)
            => Produced(k, BlockKindOf(types[k]))

(***************************************************************************)
(* C14: the glyph of an unordered list row at nesting depth d (0 for a     *)
(* list that is in no other list) is bullets[d mod len(bullets)].          *)
(***************************************************************************)
\* the lists open around token k, less one: the depth of the innermost of them
ListDepthAt(types, k) ==
    Cardinality({ j \in 1..(k - 1) : types[j] \in { "bullet_list_open", "ordered_list_open" } })
    - Cardinality({ j \in 1..(k - 1) : types[j] \in { "bullet_list_close", "ordered_list_close" } })
    - 1

C14_BulletCycles ==
    LET types == DocTypes
    IN  \A n \in DOMAIN out :
          (out[n].kind = "list_row" /\ ~out[n].ordered) =>
             bullets[out[n].glyph] =
                bullets[(ListDepthAt(types, out[n].tok) % Len(bullets)) + 1]

(***************************************************************************)
(* C15: a heading, paragraph, list row, code block, display-math block,    *)
(* table or horizontal rule appended for a token that has k > 0            *)
(* blockquotes around it was given to set_blockquote_style with depth k.   *)
(***************************************************************************)
QuotableKinds ==
    { "heading", "paragraph", "list_row", "code", "math", "math_fallback", "table", "hr" }

StyledKinds(kinds) ==
    LET types == DocTypes
    IN  \A n \in DOMAIN out :
          (out[n].kind \in kinds /\ QuotesAround(types, out[n].tok) > 0) =>
             out[n].bq = QuotesAround(types, out[n].tok)

C15_QuoteStyled == StyledKinds(QuotableKinds)

(***************************************************************************)
(* C16: every d node of a tree the math translator produced has a dPr with *)
(* a begChr and an endChr entry (the value of either may be empty).        *)
(***************************************************************************)
KidTags(node) == { node.kids[k].tag : k \in 1..Len(node.kids) }

HasBothDelimiters(d) ==
    \E k \in 1..Len(d.kids) :
        /\ d.kids[k].tag = "dPr"
        /\ { "begChr", "endChr" } \subseteq KidTags(d.kids[k])

RECURSIVE AllDelimited(_)
AllDelimited(node) ==
    /\ node.tag = "d" => HasBothDelimiters(node)
    /\ \A k \in 1..Len(node.kids) : AllDelimited(node.kids[k])

C16_BothDelimiters == AllDelimited(omml)

(***************************************************************************)
(* C17: an mrow whose children are exactly (mo, mtable, mo) or exactly     *)
(* (mo, mtable) translates to one d node: its begChr is the text of the    *)
(* first mo, its endChr the text of the second mo (empty in the two-child  *)
(* form), its only content the translated table, and no run stands next to *)
(* it.                                                                     *)
(***************************************************************************)
\* the group a call returned, the oMathPara wrapper taken off
ReturnedGroup == IF omml.tag = "oMathPara" THEN omml.kids[1] ELSE omml

\* the values of the entries named chr (begChr, endChr) of the dPr of d
DelimiterValues(d, chr) ==
    { d.kids[1].kids[k].val : k \in { j \in 1..Len(d.kids[1].kids) : d.kids[1].kids[j].tag = chr } }

\* the translator ran on a math element whose only child is a matrix-pattern mrow
PatternRowTranslated ==
    /\ omml # NoOmml
    /\ mathml.tag = "math"
    /\ Len(mathml.kids) = 1
    /\ mathml.kids[1].tag = "mrow"
    /\ TagsOf(mathml.kids[1].kids) \in { <<"mo", "mtable", "mo">>, <<"mo", "mtable">> }

IsPatternGroup(row, g) ==
    /\ Len(g.kids) = 1
    /\ LET d == g.kids[1]
       IN  /\ d.tag = "d"
           /\ Len(d.kids) = 2
           /\ d.kids[1].tag = "dPr"
           /\ DelimiterValues(d, "begChr") = { Strip[row.kids[1].text] }
           /\ DelimiterValues(d, "endChr") =
                 { IF Len(row.kids) = 3 THEN Strip[row.kids[3].text] ELSE <<>> }
           /\ d.kids[2].tag = "e"
           /\ Len(d.kids[2].kids) = 1
           /\ d.kids[2].kids[1].tag = "m"

C17_PatternDelimiters ==
    PatternRowTranslated => IsPatternGroup(mathml.kids[1], ReturnedGroup)

(***************************************************************************)
(* C18: an mrow that holds an mtable among other children, with an mo      *)
(* immediately before and / or after the table, translates to one group    *)
(* whose children are, in order, the translations of the children before   *)
(* the opening mo, one d node around the translated table with the texts   *)
(* of the adjacent mo as begChr / endChr, and the translations of the      *)
(* children after the closing mo.                                          *)
(***************************************************************************)
\* what a translation contributes to the group it is attached to
FlatKids(node) ==
    IF node = NoOmml THEN <<>> ELSE IF node.tag = "oMath" THEN node.kids ELSE <<node>>

RECURSIVE TranslationsOf(_)
TranslationsOf(elems) ==
    IF elems = <<>> THEN <<>>
    ELSE FlatKids(Convert(Head(elems))) \o TranslationsOf(Tail(elems))

OpenBefore(row, k) == k > 1 /\ row.kids[k - 1].tag = "mo"
CloseAfter(row, k) == k < Len(row.kids) /\ row.kids[k + 1].tag = "mo"

\* the table at position k of the row stands among other children, next to an mo
EmbeddedTable(row, k) ==
    /\ row.kids[k].tag = "mtable"
    /\ OpenBefore(row, k) \/ CloseAfter(row, k)
    /\ TagsOf(row.kids) \notin { <<"mo", "mtable", "mo">>, <<"mo", "mtable">> }

\* the children the claim gives the group for the table at position k
EmbeddedKids(row, k) ==
    LET kids == row.kids
        before == SubSeq(kids, 1, IF OpenBefore(row, k) THEN k - 2 ELSE k - 1)
        after == SubSeq(kids, IF CloseAfter(row, k) THEN k + 2 ELSE k + 1, Len(kids))
        d == O("d", <<>>,
               << O("dPr", <<>>,
                    << O("begChr", IF OpenBefore(row, k) THEN Strip[kids[k - 1].text]
                                   ELSE <<>>, <<>>),
                       O("endChr", IF CloseAfter(row, k) THEN Strip[kids[k + 1].text]
                                   ELSE <<>>, <<>>) >>),
                  O("e", <<>>, << Convert(kids[k]) >>) >>)
    IN  TranslationsOf(before) \o <<d>> \o TranslationsOf(after)

RowTranslated ==
    /\ omml # NoOmml
    /\ mathml.tag = "math"
    /\ Len(mathml.kids) = 1
    /\ mathml.kids[1].tag = "mrow"

C18_EmbeddedTable ==
    RowTranslated =>
       \A k \in 1..Len(mathml.kids[1].kids) :
           EmbeddedTable(mathml.kids[1], k) =>
              ReturnedGroup.kids = EmbeddedKids(mathml.kids[1], k)

(***************************************************************************)
(* C19: a munderover with three operands translates to an nary node with a *)
(* sub and a sup slot exactly when the text of its base is one of the nine *)
(* recognized operator characters, and otherwise to an sSup whose base is  *)
(* a limLow; a munder with two operands translates to a limLow whatever    *)
(* its base is.                                                            *)
(***************************************************************************)
\* U+2211, U+220F, U+222B, U+222C, U+222D, U+22C3, U+22C2, U+22C1, U+22C0
RecognizedOperators ==
    { <<"sum">>, <<"prod">>, <<"int">>, <<"iint">>, <<"iiint">>, <<"bigcup">>,
      <<"bigcap">>, <<"bigvee">>, <<"bigwedge">> }

\* the translator ran on a math element whose only child has the tag `tag`
OnlyChildTranslated(tag) ==
    /\ omml # NoOmml
    /\ mathml.tag = "math"
    /\ Len(mathml.kids) = 1
    /\ mathml.kids[1].tag = tag

IsNary(n) ==
    /\ n.tag = "nary"
    /\ Cardinality({ k \in 1..Len(n.kids) : n.kids[k].tag = "sub" }) = 1
    /\ Cardinality({ k \in 1..Len(n.kids) : n.kids[k].tag = "sup" }) = 1

IsLimitWithSuperscript(n) ==
    /\ n.tag = "sSup"
    /\ Len(n.kids) = 2
    /\ n.kids[1].tag = "e"
    /\ Len(n.kids[1].kids) = 1
    /\ n.kids[1].kids[1].tag = "limLow"
    /\ n.kids[2].tag = "sup"

C19_UnderOver ==
    /\ (OnlyChildTranslated("munderover") /\ Len(mathml.kids[1].kids) = 3) =>
          /\ Len(ReturnedGroup.kids) = 1
          /\ IF GetText(mathml.kids[1].kids[1]) \in RecognizedOperators
             THEN IsNary(ReturnedGroup.kids[1])
             ELSE IsLimitWithSuperscript(ReturnedGroup.kids[1])
    /\ (OnlyChildTranslated("munder") /\ Len(mathml.kids[1].kids) = 2) =>
          /\ Len(ReturnedGroup.kids) = 1
          /\ ReturnedGroup.kids[1].tag = "limLow"

\* returned: the nary node of a munderover whose base is the summation sign
C19_Witness ==
    /\ mpc = "returned"
    /\ OnlyChildTranslated("munderover")
    /\ Len(mathml.kids[1].kids) = 3
    /\ GetText(mathml.kids[1].kids[1]) = <<"sum">>
    /\ IsNary(ReturnedGroup.kids[1])

(***************************************************************************)
(* C20: an mfrac, msup or msub with fewer than two children, and an        *)
(* msubsup or munderover with fewer than three, translates to nothing; the *)
(* translation of the math or mrow element that holds it succeeds and      *)
(* consists of the translations of its other children, in their order.     *)
(***************************************************************************)
Incomplete(elem) ==
    \/ elem.tag \in { "mfrac", "msup", "msub" } /\ Len(elem.kids) < 2
    \/ elem.tag \in { "msubsup", "munderover" } /\ Len(elem.kids) < 3

RECURSIVE Complete(_)
Complete(elems) ==
    IF elems = <<>> THEN <<>>
    ELSE (IF Incomplete(Head(elems)) THEN <<>> ELSE <<Head(elems)>>) \o Complete(Tail(elems))

HoldsIncomplete(parent) ==
    /\ \E k \in 1..Len(parent.kids) : Incomplete(parent.kids[k])
    /\ \A k \in 1..Len(parent.kids) : parent.kids[k].tag # "mtable"

\* the conversion of the MathML tree was run and nothing outside it failed
Translated == mathml # NoMathml /\ mathIn.fault = "none" /\ mpc \in { "return", "returned" }

C20_IncompleteSkipped ==
    Translated =>
       /\ HoldsIncomplete(mathml) =>
             /\ omml # NoOmml
             /\ ReturnedGroup.kids = TranslationsOf(Complete(mathml.kids))
       /\ (Len(mathml.kids) = 1 /\ mathml.kids[1].tag = "mrow"
             /\ HoldsIncomplete(mathml.kids[1])) =>
             /\ omml # NoOmml
             /\ ReturnedGroup.kids = TranslationsOf(Complete(mathml.kids[1].kids))

\* returned: the runs x, [ and 2 of an mrow that holds them with a one-child mfrac
\* and a two-child munderover in between
C20_Witness ==
    /\ mpc = "returned"
    /\ Translated
    /\ Len(mathml.kids) = 1
    /\ mathml.kids[1].tag = "mrow"
    /\ TagsOf(mathml.kids[1].kids) = <<"mi", "mfrac", "mo", "munderover", "mn">>
    /\ Incomplete(mathml.kids[1].kids[2])
    /\ Incomplete(mathml.kids[1].kids[4])
    /\ Len(ReturnedGroup.kids) = 3

(***************************************************************************)
(* The inline formatter: what the processed prefix of the children says.   *)
(***************************************************************************)
\* the positions of the processed children whose type is in types
Seen(types) == { k \in 1..Min(pi_idx, Len(pi_children)) : pi_children[k].type \in types }

Last(S) == CHOOSE k \in S : \A j \in S : j <= k

\* the most recent marker of a kind was an open
LastWasOpen(open, close) ==
    LET marks == Seen({ open, close })
    IN  marks # {} /\ pi_children[Last(marks)].type = open

\* C21: in _process_inline each of bold, italic and strikethrough is a plain
\* toggle: after any processed prefix of markers the flag is true exactly when
\* the most recent marker of its kind was an open (so a close with no open
\* before it leaves it false, and one close after two opens turns it off)
C21_FlagsAreToggles ==
    ipc # "idle" =>
        /\ bold = LastWasOpen("strong_open", "strong_close")
        /\ italic = LastWasOpen("em_open", "em_close")
        /\ strikethrough = LastWasOpen("s_open", "s_close")

\* two opens in a row and one close have been processed: the flag is off
C21_Witness ==
    /\ ipc = "loop"
    /\ pi_idx = 3
    /\ Len(pi_children) >= 3
    /\ pi_children[1].type = "s_open"
    /\ pi_children[2].type = "s_open"
    /\ pi_children[3].type = "s_close"
    /\ ~strikethrough

\* the flag of a kind when the child at position k is reached
FlagAt(k, open, close) ==
    LET marks == { j \in 1..(k - 1) : pi_children[j].type \in { open, close } }
    IN  marks # {} /\ pi_children[Last(marks)].type = open

\* the link markers before position k
LinksBefore(k) == { j \in 1..(k - 1) : pi_children[j].type \in { "link_open", "link_close" } }

\* the child at position k lies between a link_open and the next link_close
InsideLink(k) ==
    LinksBefore(k) # {} /\ pi_children[Last(LinksBefore(k))].type = "link_open"

\* the target of a link_open: its href, the empty string without one
TargetOf(child) == DictGet(child.attrs, "href", <<>>)

\* what _add_hyperlink can leave for a text: the link element to the target, or
\* its documented degraded form, the link-coloured run
LinkSpan(r, target) ==
    /\ r.color = "link"
    /\ r.kind = "hyperlink" => r.url = target

\* C22: every text token between a link_open and the next link_close is emitted
\* as a hyperlink span to the target of the most recent link_open, with the
\* current bold and italic flags; after a link_close text is an ordinary styled
\* span again
C22_LinkText ==
    \A n \in 1..Len(runs) :
        LET r == runs[n]
            k == r.tok
        IN  pi_children[k].type = "text" =>
               /\ r.bold = FlagAt(k, "strong_open", "strong_close")
               /\ r.italic = FlagAt(k, "em_open", "em_close")
               /\ IF InsideLink(k)
                  THEN LinkSpan(r, TargetOf(pi_children[Last(LinksBefore(k))]))
                  ELSE /\ r.kind = "run"
                       /\ r.color = "default"
                       /\ r.strike = FlagAt(k, "s_open", "s_close")

(***************************************************************************)
(* Tables: the cell tokens behind the cells of a table block.              *)
(***************************************************************************)
\* the n-th smallest element of a set of positions
NthOf(S, n) == CHOOSE x \in S : Cardinality({ y \in S : y < x }) = n - 1

\* the tr_open tokens of the table opened at token t
RowsOfTable(types, t) == { k \in (t + 1)..CloseOf(types, t) : types[k] = "tr_open" }

\* the cell tokens of the row opened at token tr
CellsOfRow(types, tr) ==
    { k \in (tr + 1)..CloseOf(types, tr) : types[k] \in { "th_open", "td_open" } }

\* the token that opens cell c of row r of the table opened at t
CellToken(types, t, r, c) == NthOf(CellsOfRow(types, NthOf(RowsOfTable(types, t), r)), c)

\* token k lies between a thead_open and the next thead_close
InHeadSection(types, k) ==
    LET marks == { j \in 1..(k - 1) : types[j] \in { "thead_open", "thead_close" } }
    IN  marks # {} /\ types[Max(marks)] = "thead_open"

\* C23: a table cell receives header shading and bold whenever it is marked as
\* header by its section (it lies between thead_open and thead_close) or by its
\* own kind (it is a header cell, th); either mark alone is enough, and a cell
\* with neither mark receives no header styling
C23_HeaderCells ==
    LET types == DocTypes
    IN  \A n \in 1..Len(out) :
           out[n].kind = "table" =>
              \A rc \in out[n].filled :
                 LET cell == CellToken(types, out[n].tok, rc[1], rc[2])
                 IN  (rc \in out[n].header)
                     <=> (InHeadSection(types, cell) \/ types[cell] = "th_open")

(***************************************************************************)
(* Math that could not be translated.                                      *)
(***************************************************************************)
MathInlineTypes == { "math_inline", "math_inline_double" }

\* the raw notation as literal bracket-wrapped text, monospaced and italic
BracketFallback(r, latex_str) ==
    /\ r.kind = "run"
    /\ r.text = Bracket(latex_str)
    /\ r.font = "code"
    /\ r.italic

\* C24: when the math translation fails the builder never aborts the block and
\* emits the raw notation as literal bracket-wrapped text in a monospaced italic
\* style, for a display-math block and for inline or double-dollar math of an
\* inline run alike
C24_MathFallback ==
    /\ \A latex \in LatexInputs :
          Strip[latex] # <<>> => BracketFallback(MathBlockFallback(1, Strip[latex]), Strip[latex])
    /\ ipc = "raised" => Child.type \notin MathInlineTypes
    /\ \A n \in 1..Len(runs) :
          (pi_children[runs[n].tok].type \in MathInlineTypes /\ runs[n].kind # "omml")
             => BracketFallback(runs[n], Strip[pi_children[runs[n].tok].content])

(***************************************************************************)
(* Left indents, in tenths of a point.                                     *)
(***************************************************************************)
\* LIST_INDENT = Inches(0.35)
LIST_INDENT == 252
\* set_blockquote_style: left_indent = Inches(0.4 * depth)
QuoteIndent == 288
\* add_code_block_to_doc: left_indent = Pt(10)
CodeIndent == 100

\* paragraph_format.left_indent of a block: the list indent of a paragraph or a
\* row, overwritten by set_blockquote_style inside a blockquote; the padding of
\* a code paragraph; nothing for the other blocks (math paragraphs are centred)
LeftIndent(b) ==
    IF b.kind \in { "paragraph", "list_row", "heading" }
    THEN IF b.bq > 0 THEN QuoteIndent * b.bq ELSE LIST_INDENT * b.indent
    ELSE IF b.kind = "code" THEN CodeIndent
    ELSE 0

\* the blockquotes open at token k that were opened inside a list
QuotesInListsAround(types, k) ==
    { j \in 1..(k - 1) :
         /\ types[j] = "blockquote_open"
         /\ CloseOf(types, j) > k
         /\ ListDepthAt(types, j) >= 0 }

\* the depth d of the list item whose code, math or blockquote content holds
\* token k; -1 when k is no such content
NestedItemDepth(types, k) ==
    IF QuotesInListsAround(types, k) # {}
    THEN ListDepthAt(types, Max(QuotesInListsAround(types, k)))
    ELSE IF types[k] \in CodeTypes \cup MathTypes /\ DirectlyInItem(types, k)
    THEN ListDepthAt(types, k)
    ELSE 0 - 1

\* C25: code, display-math and blockquote content nested in a list item at
\* depth d keeps the list's indent context: the blocks it produces are indented
\* at least as deep as the item's own row (LIST_INDENT * (d + 1)), and once the
\* nested handler has returned the list depth is the one of the item's list
C25_NestedIndent ==
    LET types == DocTypes
    IN  /\ \A n \in 1..Len(out) :
              NestedItemDepth(types, out[n].tok) >= 0 =>
                 LeftIndent(out[n]) >= LIST_INDENT * (NestedItemDepth(types, out[n].tok) + 1)
        /\ (pc = "running" /\ stack # <<>> /\ F.fn = "list") => list_depth = F.depth + 1

(***************************************************************************)
(* The traversal state against the activations of the handlers.            *)
(***************************************************************************)
\* the activations of _handle_list: the lists that are open
OpenLists == { k \in 1..Len(stack) : stack[k].fn = "list" }

\* C26: in every state reached while building a well-nested token sequence
\* list_depth >= 0, blockquote_depth >= 0, list_depth is the number of lists
\* currently open, and every key of ordered_counters is below list_depth and is
\* the depth of an ordered list currently open; when the build returns both
\* depths are 0 and ordered_counters is empty
C26_DepthInvariants ==
    /\ pc = "running" =>
          /\ list_depth >= 0
          /\ blockquote_depth >= 0
          /\ list_depth = Cardinality(OpenLists)
          /\ \A d \in DOMAIN ordered_counters :
                /\ d < list_depth
                /\ \E k \in OpenLists : stack[k].ordered /\ stack[k].depth = d
    /\ pc = "done" =>
          /\ list_depth = 0
          /\ blockquote_depth = 0
          /\ ordered_counters = EmptyDict

\* an ordered list is open inside a bullet list and has numbered an item
C26_Witness ==
    /\ pc = "running"
    /\ list_depth = 2
    /\ Cardinality(OpenLists) = 2
    /\ DOMAIN ordered_counters = { 1 }
    /\ ordered_counters[1] > 0

(***************************************************************************)
(* The order of the output.                                                *)
(***************************************************************************)
\* the blocks of the document follow the order of the tokens they were made for
OutInTokenOrder ==
    \A m, n \in 1..Len(out) : m < n => out[m].tok <= out[n].tok

\* while the build runs the document only grows at its end
AppendsOnly == pc = "running" => IsPrefix(out, out')

\* C27: output blocks are appended in token order, inside list items and nested
\* blockquotes too: no block is appended for a token before all blocks of the
\* earlier tokens have been appended
C27_TokenOrder == []OutInTokenOrder /\ [][AppendsOnly]_vars

\* a list row, the content of a blockquote in that list's item, and a later row
\* of the list have made their blocks
C27_Witness ==
    /\ pc = "done"
    /\ \E a, b, c \in 1..Len(out) :
          /\ a < b /\ b < c
          /\ out[a].kind = "list_row" /\ out[a].bq = 0 /\ out[a].indent = 1
          /\ out[b].bq = 1
          /\ out[c].kind = "list_row" /\ out[c].bq = 0
          /\ out[a].tok < out[b].tok /\ out[b].tok < out[c].tok

(***************************************************************************)
(* The normalisation of the notation, read macro name by macro name.       *)
(***************************************************************************)
IsLetter(c) ==
    \E k \in 1..Len(UpperChars) : UpperChars[k] = c \/ LowerChars[k] = c

\* the letters at the front of s: the name of a macro after its backslash
LetterRun[s \in Str] ==
    IF s = <<>> \/ ~IsLetter(Head(s)) THEN <<>> ELSE <<Head(s)>> \o LetterRun[Tail(s)]

Shorthands == { <<"R">>, <<"N">>, <<"Z">>, <<"Q">>, <<"C">> }

\* s with the macros \R, \N, \Z, \Q, \C, taken as complete macro names, written
\* as \mathbb{..}, and everything else as it was
RewriteShorthands[s \in Str] ==
    IF s = <<>> THEN <<>>
    ELSE IF Head(s) = "\\"
    THEN LET name == LetterRun[Tail(s)]
             rest == SubSeq(s, Len(name) + 2, Len(s))
         IN  IF name \in Shorthands
             THEN <<"\\", "m", "a", "t", "h", "b", "b", "{">> \o name \o <<"}">>
                  \o RewriteShorthands[rest]
             ELSE IF name = <<>> THEN <<"\\">> \o RewriteShorthands[Tail(s)]
             ELSE <<"\\">> \o name \o RewriteShorthands[rest]
    ELSE <<Head(s)>> \o RewriteShorthands[Tail(s)]

\* C28: _clean_latex rewrites only the five shorthand macros \R, \N, \Z, \Q, \C,
\* as complete macro names, and leaves everything else (longer macro names that
\* begin with those letters included) unchanged apart from trimming the
\* surrounding whitespace; cleaning a cleaned string changes nothing
C28_ShorthandsOnly ==
    mathIn.cleaned # <<>> =>
        /\ mathIn.cleaned = RewriteShorthands[Strip[mathIn.latex]]
        /\ _clean_latex(mathIn.cleaned) = mathIn.cleaned

\* C29: _process_inline never aborts: for every sequence of inline tokens (a
\* footnote reference without a reference id, a link_open without href, an image
\* without source and unknown token kinds included) it returns normally
C29_InlineNeverAborts == ipc # "raised"

(***************************************************************************)
(* Rows with more than one table.                                          *)
(***************************************************************************)
\* the children of the row are token leaves and tables only
LeafRow(row) ==
    \A k \in 1..Len(row.kids) : row.kids[k].tag \in { "mi", "mn", "mo", "mtext", "mtable" }

\* the table children of the row that have an mo immediately before or after
TablesByOperator(row) ==
    { k \in 1..Len(row.kids) :
         row.kids[k].tag = "mtable" /\ (OpenBefore(row, k) \/ CloseAfter(row, k)) }

\* the mo children of the row that stand next to no table
FreeOperators(row) ==
    { k \in 1..Len(row.kids) :
         /\ row.kids[k].tag = "mo"
         /\ ~(k > 1 /\ row.kids[k - 1].tag = "mtable")
         /\ ~(k < Len(row.kids) /\ row.kids[k + 1].tag = "mtable") }

\* the delimited groups among the children of a group
DelimitedKids(g) == { j \in 1..Len(g.kids) : g.kids[j].tag = "d" }

\* C30: in a row-group every table child that has an operator immediately
\* before or after it is wrapped in its own delimited group, and an operator that
\* is not adjacent to a table is always translated as an ordinary sibling run
C30_EveryTableWrapped ==
    (RowTranslated /\ LeafRow(mathml.kids[1])) =>
        LET row == mathml.kids[1]
            g == ReturnedGroup
        IN  /\ Cardinality(DelimitedKids(g)) = Cardinality(TablesByOperator(row))
            /\ \A k \in FreeOperators(row) :
                  Convert(row.kids[k]) # NoOmml =>
                     \E j \in 1..Len(g.kids) : g.kids[j] = Convert(row.kids[k])

=============================================================================
